---------------------------- MODULE Spec2Model ----------------------------
(***************************************************************************)
(* A model of the MEC-assisted PoW blockchain simulator: the Miner,        *)
(* Coalition and ECP entities (src/entities) and the SimulationEngine      *)
(* (src/simulation/engine.py).                                             *)
(*                                                                         *)
(* Numbers.  The program computes with Python floats.  Here the amounts of *)
(* the membership / reward domain (allocations, work, shares, rewards,     *)
(* utilities) are exact rationals <<n, d>> in lowest terms with d > 0, so  *)
(* that "sums to 1" and "sums to the net reward" are statements about real *)
(* arithmetic (the program meets them up to float rounding).               *)
(* Hashrates are counted in units of 100 MH/s (HASHRATE_MIN = 1,           *)
(* HASHRATE_MAX = 5); purchased compute is counted in H/s.                 *)
(***************************************************************************)
EXTENDS Integers, Sequences, FiniteSets, TLC

(***************************************************************************)
(* Bounds of the model.                                                    *)
(***************************************************************************)
NumMiners == 2
MaxHash == 2
ApiCoalitions == 2
MaxOps == 4
MaxBlocks == 2
MaxEcpOps == 3
\* transactions created at initialization (TOTAL_TRANSACTIONS in the program)
MaxTx == 11
\* runs of one execution of run() (its argument num_runs)
MaxRuns == 2
\* values of the swept parameter (the length of param_range)
MaxSweep == 2

Miners == 1..NumMiners
\* coalition objects: one per miner (solo coalitions) and one more for a SPLIT
Handles == 1..(NumMiners + 1)
\* the coalition objects the API-level specifications construct
ApiHandles == 1..ApiCoalitions
None == 0

(***************************************************************************)
(* Exact rational arithmetic.                                              *)
(***************************************************************************)
Abs(x) == IF x < 0 THEN -x ELSE x

RECURSIVE Gcd(_, _)
Gcd(a, b) == IF b = 0 THEN a ELSE Gcd(b, a % b)

Rat(n, d) ==
    LET s == IF d < 0 THEN -1 ELSE 1
        g == Gcd(Abs(n), Abs(d))
    IN  IF n = 0 THEN <<0, 1>> ELSE <<(s * n) \div g, (s * d) \div g>>

Zero == <<0, 1>>
One == <<1, 1>>
FromInt(i) == <<i, 1>>

RAdd(x, y) ==
    LET g == Gcd(x[2], y[2])
    IN  Rat(x[1] * (y[2] \div g) + y[1] * (x[2] \div g), (x[2] \div g) * y[2])
RSub(x, y) == RAdd(x, <<-y[1], y[2]>>)
RMul(x, y) ==
    LET a == Rat(x[1], y[2])
        b == Rat(y[1], x[2])
    IN  Rat(a[1] * b[1], a[2] * b[2])
RDiv(x, y) == RMul(x, Rat(y[2], y[1]))
RLt(x, y) == LET g == Gcd(x[2], y[2]) IN x[1] * (y[2] \div g) < y[1] * (x[2] \div g)
RLe(x, y) == LET g == Gcd(x[2], y[2]) IN x[1] * (y[2] \div g) <= y[1] * (x[2] \div g)
RMax(x, y) == IF RLt(x, y) THEN y ELSE x
RMin(x, y) == IF RLt(y, x) THEN y ELSE x
\* x > y + 1/epsInv, decided without forming epsInv * numerator
ExceedsBy(x, y, epsInv) ==
    LET diff == RSub(x, y)
    IN  diff[1] > diff[2] \div epsInv

RECURSIVE RSumSeq(_)
RSumSeq(s) == IF s = <<>> THEN Zero ELSE RAdd(Head(s), RSumSeq(Tail(s)))

(***************************************************************************)
(* Compute quantities.  Miner hashrates are hundreds of MH/s while the     *)
(* compute a coalition buys at the configured prices is a few H/s, so a    *)
(* quantity of compute is a pair <<hu, hs>> of rationals standing for      *)
(* hu * HashUnit + hs hashes per second.                                   *)
(***************************************************************************)
HashUnit == 100000000

QZero == <<Zero, Zero>>
QHu(x) == <<x, Zero>>
QHs(x) == <<Zero, x>>
QAdd(a, b) == <<RAdd(a[1], b[1]), RAdd(a[2], b[2])>>
QSub(a, b) == <<RSub(a[1], b[1]), RSub(a[2], b[2])>>

RSign(x) == IF x[1] > 0 THEN 1 ELSE IF x[1] < 0 THEN -1 ELSE 0

\* sign of hu * HashUnit + hs, without forming the product
QSign(q) ==
    LET su == RSign(q[1])
        ss == RSign(q[2])
        big == Abs(q[1][1]) * q[2][2]          \* |hu| * HashUnit  vs  |hs|
        small == Abs(q[2][1]) * q[1][2]
    IN  IF su = 0 THEN ss
        ELSE IF ss = 0 \/ ss = su THEN su
        ELSE IF big > small \div HashUnit THEN su
        ELSE IF small % HashUnit = 0 /\ big = small \div HashUnit THEN 0
        ELSE ss

QLe(a, b) == QSign(QSub(a, b)) <= 0
QLt(a, b) == QSign(QSub(a, b)) < 0
QMin(a, b) == IF QLt(b, a) THEN b ELSE a

\* q * r for a quantity q and a rational r (an amount of money when r is a price)
QScale(q, r) ==
    IF q[1] = Zero THEN RMul(q[2], r)
    ELSE RAdd(RMul(RMul(q[1], r), FromInt(HashUnit)), RMul(q[2], r))

RECURSIVE QSumSeq(_)
QSumSeq(s) == IF s = <<>> THEN QZero ELSE QAdd(Head(s), QSumSeq(Tail(s)))

(***************************************************************************)
(* Program constants (src/simulation/config.py).                           *)
(***************************************************************************)
BLOCK_REWARD_B == 1000
CONTEXT_SWITCH_OVERHEAD == <<16, 1000>>
DEFINITION_4_ENABLED == TRUE
SMART_CONTRACT_ENABLED == TRUE
TRUST_OVERHEAD_FACTOR == <<7, 100>>
THEFT_AMOUNT == <<20, 100>>
OCF_MAX_ITERATIONS == 20
\* OCF_CONVERGENCE_EPSILON = 0.01 = 1 / OcfEpsInv
OcfEpsInv == 100
\* epsilon = 1e-6 of Coalition.check_definition_4 = 1 / Def4EpsInv
Def4EpsInv == 1000000
\* tolerance = 0.95 of simulation.utils.check_definition_4
Def4Tolerance == <<95, 100>>


(***************************************************************************)
(* Objects.  A world w is the heap the methods work on:                    *)
(*   w.miners[m] : the Miner with miner_id m,                              *)
(*   w.coal[h]   : the Coalition object at handle h (alive once            *)
(*                 constructed).  Coalition.__eq__ compares coalition_id,  *)
(*                 so list membership and list removal go by identifier.   *)
(* Miner.allocation (a dict coalition_id -> fraction) is a function whose  *)
(* domain is the set of keys.                                              *)
(***************************************************************************)
EmptyAlloc == [k \in {} |-> Zero]

NewMiner(h) ==
    [total_hashrate |-> h, coalitions |-> <<>>, allocation |-> EmptyAlloc,
     current_utility |-> Zero, total_earnings |-> Zero, transactions |-> {}]

NoCoalition ==
    [alive |-> FALSE, coalition_id |-> 0, members |-> <<>>, head_miner |-> None,
     blocks_found |-> 0, total_rewards |-> Zero, ecp_compute_purchased |-> QZero,
     ecp_cost_paid |-> Zero, current_utility |-> Zero, transaction_pool |-> <<>>]

\* Coalition.__init__(coalition_id, head_miner)
NewCoalition(id, head) ==
    [alive |-> TRUE, coalition_id |-> id,
     members |-> IF head # None THEN <<head>> ELSE <<>>,
     head_miner |-> head,
     blocks_found |-> 0, total_rewards |-> Zero, ecp_compute_purchased |-> QZero,
     ecp_cost_paid |-> Zero, current_utility |-> Zero, transaction_pool |-> <<>>]

\* Coalition.expected_rewards is set in __init__ and never assigned again
expected_rewards == FromInt(BLOCK_REWARD_B)

Range(s) == {s[i] : i \in DOMAIN s}

\* list.remove(x) once the index i of the first element equal to x is known
RemoveAt(s, i) == [j \in 1..(Len(s) - 1) |-> IF j < i THEN s[j] ELSE s[j + 1]]

\* Coalition.__eq__
CoalEq(w, h1, h2) == w.coal[h1].coalition_id = w.coal[h2].coalition_id

\* `coalition in miner.coalitions`
InCoalitions(w, m, h) ==
    \E i \in DOMAIN w.miners[m].coalitions : CoalEq(w, w.miners[m].coalitions[i], h)

\* `miner in coalition.members` (Miner.__eq__ compares miner_id)
IsMember(w, h, m) == m \in Range(w.coal[h].members)

\* Miner.get_allocation
get_allocation(w, m, h) ==
    LET id == w.coal[h].coalition_id
        al == w.miners[m].allocation
    IN  IF id \in DOMAIN al THEN al[id] ELSE Zero

\* overhead-adjusted share of an allocated hashrate held over n coalitions
WithOverhead(allocated_hashrate, num_coalitions) ==
    IF num_coalitions <= 1 THEN allocated_hashrate
    ELSE RMax(Zero, RMul(allocated_hashrate,
                         RSub(One, RMul(FromInt(num_coalitions), CONTEXT_SWITCH_OVERHEAD))))

\* Miner.get_work_contribution
get_work_contribution(w, m, h) ==
    IF ~InCoalitions(w, m, h) THEN Zero
    ELSE WithOverhead(RMul(FromInt(w.miners[m].total_hashrate), get_allocation(w, m, h)),
                      Len(w.miners[m].coalitions))

\* Miner.get_potential_work_contribution
get_potential_work_contribution(w, m, h) ==
    LET num_coalitions == Len(w.miners[m].coalitions) + 1
    IN  WithOverhead(RMul(FromInt(w.miners[m].total_hashrate), Rat(1, num_coalitions)),
                     num_coalitions)

\* Coalition.get_total_work
get_total_work(w, h) ==
    RSumSeq([i \in DOMAIN w.coal[h].members |->
                get_work_contribution(w, w.coal[h].members[i], h)])

\* Coalition.get_expected_member_utility
ShareUtility(member_work, total_work) ==
    IF total_work = Zero THEN Zero
    ELSE RMax(Zero, RMul(RDiv(member_work, total_work), expected_rewards))

get_expected_member_utility(w, h, m) ==
    ShareUtility(get_work_contribution(w, m, h), get_total_work(w, h))

\* Miner.allocate_work_time: the new allocation dict
\* utilities[i] is max(0.0, utility) of the i-th coalition of the miner's list
Proportional(w, m, utilities) ==
    LET cs == w.miners[m].coalitions
        ids == {w.coal[cs[i]].coalition_id : i \in DOMAIN cs}
        total_utility == RSumSeq(utilities)
        last(id) == CHOOSE i \in DOMAIN cs :
                        /\ w.coal[cs[i]].coalition_id = id
                        /\ \A j \in DOMAIN cs : w.coal[cs[j]].coalition_id = id => j <= i
    IN  IF total_utility = Zero THEN [k \in ids |-> Rat(1, Len(cs))]
        ELSE [k \in ids |-> RDiv(utilities[last(k)], total_utility)]

allocate_work_time(w, m) ==
    IF Len(w.miners[m].coalitions) = 0 THEN EmptyAlloc
    ELSE IF Len(w.miners[m].coalitions) = 1
    THEN [k \in {w.coal[w.miners[m].coalitions[1]].coalition_id} |-> One]
    ELSE Proportional(w, m,
             [i \in DOMAIN w.miners[m].coalitions |->
                 RMax(Zero, get_expected_member_utility(w, w.miners[m].coalitions[i], m))])

Ret(w, ok) == [w |-> w, ok |-> ok]

\* Miner.join_coalition
join_coalition(w, m, h) ==
    IF InCoalitions(w, m, h) THEN Ret(w, FALSE)
    ELSE LET w1 == [w EXCEPT !.miners[m].coalitions = Append(@, h)]
         IN  Ret([w1 EXCEPT !.miners[m].allocation = allocate_work_time(w1, m)], TRUE)

\* leave_coalition without the closing allocate_work_time()
leave_coalition_stale(w, m, h) ==
    IF ~InCoalitions(w, m, h) THEN Ret(w, FALSE)
    ELSE LET cs == w.miners[m].coalitions
             first == CHOOSE i \in DOMAIN cs :
                          /\ CoalEq(w, cs[i], h)
                          /\ \A j \in DOMAIN cs : CoalEq(w, cs[j], h) => i <= j
             id == w.coal[h].coalition_id
         IN  Ret([w EXCEPT !.miners[m].coalitions = RemoveAt(cs, first),
                           !.miners[m].allocation =
                               [k \in (DOMAIN @) \ {id} |-> @[k]]], TRUE)

\* Miner.leave_coalition
leave_coalition(w, m, h) ==
    IF ~InCoalitions(w, m, h) THEN Ret(w, FALSE)
    ELSE LET cs == w.miners[m].coalitions
             first == CHOOSE i \in DOMAIN cs :
                          /\ CoalEq(w, cs[i], h)
                          /\ \A j \in DOMAIN cs : CoalEq(w, cs[j], h) => i <= j
             id == w.coal[h].coalition_id
             w1 == [w EXCEPT !.miners[m].coalitions = RemoveAt(cs, first),
                             !.miners[m].allocation =
                                 [k \in (DOMAIN @) \ {id} |-> @[k]]]
         IN  Ret([w1 EXCEPT !.miners[m].allocation = allocate_work_time(w1, m)], TRUE)

\* Coalition.check_definition_4
\* projected_utility < current_utility - epsilon, for one member
MemberWorse(member_work, current_total_work, projected_total_work) ==
    ExceedsBy(RMul(RDiv(member_work, current_total_work), expected_rewards),
              RMul(RDiv(member_work, projected_total_work), expected_rewards),
              Def4EpsInv)

\* the checks of check_definition_4 once the two totals are known
Definition4(w, h, current_total_work, projected_total_work) ==
    IF Len(w.coal[h].members) = 0 THEN TRUE
    ELSE IF current_total_work = Zero THEN TRUE
    ELSE IF projected_total_work = Zero THEN FALSE
    ELSE \A member \in Range(w.coal[h].members) :
             ~MemberWorse(get_work_contribution(w, member, h),
                          current_total_work, projected_total_work)

ProjectedTotal(current_total_work, new_miner_work) ==
    <<current_total_work, RAdd(current_total_work, new_miner_work)>>

Definition4On(w, h, totals) == Definition4(w, h, totals[1], totals[2])

\* check_definition_4 answering True for every applicant
check_definition_4_open(w, h, new_miner) == TRUE

check_definition_4(w, h, new_miner) ==
    Definition4On(w, h, ProjectedTotal(get_total_work(w, h),
                                       get_potential_work_contribution(w, new_miner, h)))

\* Coalition.add_member
add_member(w, h, m) ==
    IF IsMember(w, h, m) THEN Ret(w, FALSE)
    ELSE IF DEFINITION_4_ENABLED /\ Len(w.coal[h].members) > 0
            /\ ~check_definition_4(w, h, m) THEN Ret(w, FALSE)
    ELSE Ret([w EXCEPT !.coal[h].members = Append(@, m),
                       !.coal[h].head_miner = IF @ = None THEN m ELSE @], TRUE)

\* remove_member electing the last remaining member when the head leaves
remove_member_last(w, h, m) ==
    IF ~IsMember(w, h, m) THEN Ret(w, FALSE)
    ELSE LET ms == w.coal[h].members
             first == CHOOSE i \in DOMAIN ms :
                          ms[i] = m /\ \A j \in DOMAIN ms : ms[j] = m => i <= j
             rest == RemoveAt(ms, first)
         IN  Ret([w EXCEPT !.coal[h].members = rest,
                           !.coal[h].head_miner =
                               IF @ = m THEN (IF Len(rest) > 0 THEN rest[Len(rest)] ELSE None)
                               ELSE @], TRUE)

\* Coalition.remove_member
remove_member(w, h, m) ==
    IF ~IsMember(w, h, m) THEN Ret(w, FALSE)
    ELSE LET ms == w.coal[h].members
             first == CHOOSE i \in DOMAIN ms :
                          ms[i] = m /\ \A j \in DOMAIN ms : ms[j] = m => i <= j
             rest == RemoveAt(ms, first)
         IN  Ret([w EXCEPT !.coal[h].members = rest,
                           !.coal[h].head_miner =
                               IF @ = m THEN (IF Len(rest) > 0 THEN rest[1] ELSE None)
                               ELSE @], TRUE)


(***************************************************************************)
(* Transactions.  A Transaction is a record of its tx_id and fee; equality *)
(* and hashing go by tx_id (Transaction.__eq__, __hash__).                 *)
(***************************************************************************)
TRANSACTIONS_PER_BLOCK_I == 10
TRANSACTION_FEE_MIN == 0
TRANSACTION_FEE_MAX == 100
TIMESTEP == 1

Transaction(tx_id, fee) == [tx_id |-> tx_id, fee |-> fee]

TxIds(txs) == {tx.tx_id : tx \in txs}

\* set.difference_update(transactions)
Without(txs, transactions) == {tx \in txs : tx.tx_id \notin TxIds(transactions)}

\* Miner.transaction_collection_rate = int(hashrate / 1e6)
transaction_collection_rate(w, m) == w.miners[m].total_hashrate * (HashUnit \div 1000000)

\* the outcomes of random.sample(available, num_to_collect) in
\* Miner.collect_transactions; time_delta is a whole number of seconds
Samples(w, m, global_transaction_pool, time_delta) ==
    LET available == Without(global_transaction_pool, w.miners[m].transactions)
        wanted == transaction_collection_rate(w, m) * time_delta
    IN  IF available = {} THEN {{}}
        ELSE IF wanted >= Cardinality(available) THEN {available}
        ELSE {s \in SUBSET available : Cardinality(s) = wanted}

\* Miner.collect_transactions, new_transactions being the sample drawn
collect_transactions(w, m, new_transactions) ==
    [w EXCEPT !.miners[m].transactions = @ \cup new_transactions]

RECURSIVE MinersCollect(_, _, _)
\* SimulationEngine.miners_collect_transactions: the worlds it can end in,
\* from miner m on
MinersCollect(w, global_transaction_pool, m) ==
    IF m > NumMiners THEN {w}
    ELSE UNION {MinersCollect(collect_transactions(w, m, s), global_transaction_pool, m + 1) :
                   s \in Samples(w, m, global_transaction_pool, TIMESTEP)}

RECURSIVE InIdOrder(_)
\* Miner.get_transactions: list(self.transactions).  The order of a set's
\* elements is taken to be the order of their hashes, the tx_ids; it matters
\* only between transactions of equal fee.
InIdOrder(txs) ==
    IF txs = {} THEN <<>>
    ELSE LET first == CHOOSE tx \in txs : \A other \in txs : tx.tx_id <= other.tx_id
         IN  <<first>> \o InIdOrder(txs \ {first})

get_transactions(w, m) == InIdOrder(w.miners[m].transactions)

RECURSIVE Unseen(_, _)
\* the elements of a list whose tx_id is not in seen_tx_ids, each once
Unseen(txs, seen_tx_ids) ==
    IF txs = <<>> THEN <<>>
    ELSE IF Head(txs).tx_id \in seen_tx_ids THEN Unseen(Tail(txs), seen_tx_ids)
    ELSE <<Head(txs)>> \o Unseen(Tail(txs), seen_tx_ids \cup {Head(txs).tx_id})

RECURSIVE MembersTransactions(_, _, _)
\* the transactions of the members from the i-th on, in list order
MembersTransactions(w, members, i) ==
    IF i > Len(members) THEN <<>>
    ELSE get_transactions(w, members[i]) \o MembersTransactions(w, members, i + 1)

\* Coalition.aggregate_transactions
aggregate_transactions(w, h) ==
    [w EXCEPT !.coal[h].transaction_pool =
                  Unseen(MembersTransactions(w, w.coal[h].members, 1), {})]

RECURSIVE AggregateAll(_, _, _)
\* "for coalition in self.coalitions: coalition.aggregate_transactions()"
AggregateAll(w, coalitions, i) ==
    IF i > Len(coalitions) THEN w
    ELSE AggregateAll(aggregate_transactions(w, coalitions[i]), coalitions, i + 1)

RECURSIVE TopByFee(_, _)
\* sorted(pool, key=fee, reverse=True)[:n]: the sort is stable
TopByFee(pool, n) ==
    IF n = 0 \/ pool = <<>> THEN <<>>
    ELSE LET best == CHOOSE i \in DOMAIN pool :
                         \A j \in DOMAIN pool :
                             \/ pool[j].fee < pool[i].fee
                             \/ pool[j].fee = pool[i].fee /\ i <= j
         IN  <<pool[best]>> \o TopByFee([j \in 1..(Len(pool) - 1) |->
                                            IF j < best THEN pool[j] ELSE pool[j + 1]],
                                        n - 1)

\* Coalition.select_transactions_for_block
select_transactions_for_block(w, h, max_transactions) ==
    TopByFee(w.coal[h].transaction_pool, max_transactions)

\* clear_transactions leaving the miner's transactions as they are
clear_transactions_never(w, m, transactions) == w

\* Miner.clear_transactions
clear_transactions(w, m, transactions) ==
    [w EXCEPT !.miners[m].transactions = Without(@, transactions)]

\* sum(tx.fee for tx in selected_transactions)
FeeSum(transactions) ==
    RSumSeq([i \in DOMAIN transactions |-> FromInt(transactions[i].fee)])

(***************************************************************************)
(* Reward distribution.                                                    *)
(***************************************************************************)
\* simulation.utils.calculate_miner_utility, given the works it reads
MinerUtility(work_contributed, total_work, rewards, ecp_price, ecp_compute_purchased) ==
    IF total_work = Zero THEN Zero
    ELSE RMax(Zero, RMul(RDiv(work_contributed, total_work),
                         RSub(rewards, QScale(ecp_compute_purchased, ecp_price))))

calculate_miner_utility(w, m, h, rewards, ecp_price, ecp_compute_purchased) ==
    MinerUtility(get_work_contribution(w, m, h), get_total_work(w, h),
                 rewards, ecp_price, ecp_compute_purchased)

\* the discounts Coalition.distribute_rewards applies when smart contracts are
\* off (theft: the outcome of random.random() < THEFT_PROBABILITY)
Discounted(net_reward, theft) ==
    IF SMART_CONTRACT_ENABLED THEN net_reward
    ELSE IF theft
    THEN RMul(RMul(net_reward, RSub(One, TRUST_OVERHEAD_FACTOR)), RSub(One, THEFT_AMOUNT))
    ELSE RMul(net_reward, RSub(One, TRUST_OVERHEAD_FACTOR))

\* net_reward without the provider's bill
NetRewardGross(w, h, block_reward, ecp_price, theft) == Discounted(block_reward, theft)

\* net_reward of Coalition.distribute_rewards
NetReward(w, h, block_reward, ecp_price, theft) ==
    Discounted(RSub(block_reward, QScale(w.coal[h].ecp_compute_purchased, ecp_price)),
               theft)

\* the amount Coalition.distribute_rewards passes to member.receive_reward
MemberReward(member_work, total_work, net_reward) ==
    RMul(IF RLt(Zero, total_work) THEN RDiv(member_work, total_work) ELSE Zero,
         net_reward)

\* the loop over the members and the coalition totals
Distribute(w, h, block_reward, ecp_price, total_work, net_reward, utilities) ==
    [w EXCEPT
       !.miners = [m \in Miners |->
           IF m \in Range(w.coal[h].members)
           THEN [@[m] EXCEPT
                   !.total_earnings =
                       RAdd(@, MemberReward(get_work_contribution(w, m, h), total_work,
                                            net_reward)),
                   !.current_utility = utilities[m]]
           ELSE @[m]],
       !.coal[h].total_rewards = RAdd(@, block_reward),
       !.coal[h].ecp_cost_paid =
           RAdd(@, QScale(w.coal[h].ecp_compute_purchased, ecp_price)),
       !.coal[h].current_utility =
           RSumSeq([i \in DOMAIN w.coal[h].members |-> utilities[w.coal[h].members[i]]])]

\* distribute_rewards counting the reward of a coalition without work
DistributeNetCounted(w, h, block_reward, ecp_price, total_work, net_reward) ==
    IF total_work = Zero
    THEN Ret([w EXCEPT !.coal[h].total_rewards = RAdd(@, block_reward)], FALSE)
    ELSE IF RLe(net_reward, Zero) THEN Ret(w, FALSE)
    ELSE Ret(Distribute(w, h, block_reward, ecp_price, total_work, net_reward,
                 [m \in Miners |->
                     MinerUtility(get_work_contribution(w, m, h), total_work, net_reward,
                                  ecp_price, w.coal[h].ecp_compute_purchased)]), TRUE)

DistributeNet(w, h, block_reward, ecp_price, total_work, net_reward) ==
    IF total_work = Zero THEN Ret(w, FALSE)
    ELSE IF RLe(net_reward, Zero) THEN Ret(w, FALSE)
    ELSE Ret(Distribute(w, h, block_reward, ecp_price, total_work, net_reward,
                 [m \in Miners |->
                     MinerUtility(get_work_contribution(w, m, h), total_work, net_reward,
                                  ecp_price, w.coal[h].ecp_compute_purchased)]), TRUE)

\* Coalition.distribute_rewards (with Miner.receive_reward and Miner.update_utility)
distribute_rewards(w, h, block_reward, ecp_price, theft) ==
    DistributeNet(w, h, block_reward, ecp_price, get_total_work(w, h),
                  NetReward(w, h, block_reward, ecp_price, theft))

(***************************************************************************)
(* Strategy evaluation of the coalition-formation (OCF) game.              *)
(***************************************************************************)
\* Miner.get_total_utility / Miner.evaluate_strategy_stay
get_total_utility(w, m) == w.miners[m].current_utility

\* Miner.evaluate_coalition_utility / Miner.evaluate_strategy_merge.  The branch
\* taken when the coalition's expected rewards are 0 calls
\* Coalition.get_total_hashrate, which does not exist: it raises AttributeError.
evaluate_coalition_utility(w, m, h) ==
    LET potential_contribution == get_potential_work_contribution(w, m, h)
        coalition_total_work == RAdd(get_total_work(w, h), potential_contribution)
        share == RDiv(potential_contribution, coalition_total_work)
    IN  IF coalition_total_work = Zero THEN Zero
        ELSE IF expected_rewards = Zero THEN "AttributeError"
        ELSE RMul(share, expected_rewards)

\* Miner.evaluate_strategy_split
\* evaluate_strategy_split promising a miner ten times its current utility,
\* and an orphan a positive utility
evaluate_strategy_split_eager(w, m) ==
    IF Len(w.miners[m].coalitions) >= 3 THEN Zero
    ELSE IF Len(w.miners[m].coalitions) = 0 THEN FromInt(1000)
    ELSE RMul(get_total_utility(w, m), <<10, 1>>)

evaluate_strategy_split(w, m) ==
    IF Len(w.miners[m].coalitions) >= 3 THEN Zero
    ELSE IF Len(w.miners[m].coalitions) = 0 THEN FromInt(-1000)
    ELSE RMul(get_total_utility(w, m), <<1, 10>>)

\* Miner.evaluate_strategy_leave
evaluate_strategy_leave(w, m, h) ==
    IF ~InCoalitions(w, m, h) THEN get_total_utility(w, m)
    ELSE IF Len(w.miners[m].coalitions) - 1 = 0 THEN Zero
    ELSE RSub(get_total_utility(w, m), get_expected_member_utility(w, h, m))


(***************************************************************************)
(* Edge computing provider (ECP).                                          *)
(* total_revenue, total_cost, current_demand and the history lists are     *)
(* statistics that no modelled operation reads; they are not part of the   *)
(* state.                                                                  *)
(***************************************************************************)
ECP_MAX_CAPACITY_L == QHu(FromInt(100))                \* 10e9 H/s
ECP_OPERATING_COST_C == <<1, 2>>
ECP_INITIAL_PRICE == <<200, 1>>
ECP_PRICE_MIN == <<0, 1>>
ECP_PRICE_MAX == <<450, 1>>
ECP_OPTIMIZATION_ENABLED == TRUE
OVERLAP_THRESHOLD == <<3, 10>>
OVERLAP_SAVINGS_FACTOR == <<25, 100>>
STACKELBERG_MAX_ITERATIONS == 100

\* ECP.__init__
NewECP ==
    [total_capacity |-> ECP_MAX_CAPACITY_L, current_load |-> QZero,
     price_per_hash |-> ECP_INITIAL_PRICE,
     operating_cost_per_hash |-> ECP_OPERATING_COST_C,
     compute_requests |-> <<>>, total_demand |-> QZero, present |-> TRUE,
     membership_graph |-> <<>>, overlap_savings |-> Zero, optimization_count |-> 0]

\* Coalition.calculate_optimal_compute_demand, given the members' work
OptimalDemand(member_hashrate, num_members, price) ==
    LET optimal_compute == RMul(member_hashrate, Rat(5, 10 + (num_members - 1)))
        expected_benefit == RMul(expected_rewards, <<2, 10>>)
        \* optimal_compute * HashUnit * price > expected_benefit
        over == RDiv(RMul(optimal_compute, price), expected_benefit)
        too_dear == over[1] > 0 /\ over[1] > over[2] \div HashUnit
    IN  IF RLt(RMul(expected_rewards, <<1, 2>>), price) THEN QZero
        ELSE IF member_hashrate = Zero THEN QZero
        ELSE IF too_dear
             THEN IF RLt(Zero, price) THEN QHs(RDiv(expected_benefit, price)) ELSE QZero
        ELSE IF RLt(optimal_compute, Zero) THEN QZero
        ELSE QHu(optimal_compute)

calculate_optimal_compute_demand(w, h, price, cost) ==
    OptimalDemand(get_total_work(w, h), Len(w.coal[h].members), price)

\* allocate_compute granting what is asked, whatever capacity remains
allocate_compute_uncapped(ecp, h, nonce_range) ==
    [ecp |-> [ecp EXCEPT
                 !.compute_requests = Append(@, [coalition |-> h, nonce_range |-> nonce_range,
                                                allocated |-> nonce_range]),
                 !.current_load = QAdd(@, nonce_range),
                 !.total_demand = QAdd(@, nonce_range)],
     allocated |-> nonce_range]

\* ECP.allocate_compute; a request is <<coalition, nonce_range, allocated>>
allocate_compute(ecp, h, nonce_range) ==
    LET available_capacity == QSub(ecp.total_capacity, ecp.current_load)
        allocated == QMin(nonce_range, available_capacity)
        request == [coalition |-> h, nonce_range |-> nonce_range, allocated |-> QZero]
    IN  IF QLe(available_capacity, QZero)
        THEN [ecp |-> [ecp EXCEPT !.compute_requests = Append(@, request)],
              allocated |-> QZero]
        ELSE [ecp |-> [ecp EXCEPT
                  !.compute_requests = Append(@, [request EXCEPT !.allocated = allocated]),
                  !.current_load = QAdd(@, allocated),
                  !.total_demand = QAdd(@, allocated)],
              allocated |-> allocated]

\* a reset of the load that keeps the list of requests
reset_load_keeping_requests(ecp) == [ecp EXCEPT !.current_load = QZero]

\* ECP.reset_load
reset_load(ecp) == [ecp EXCEPT !.current_load = QZero, !.compute_requests = <<>>]

\* request_ecp_compute adding the grant to what was purchased before
PurchaseOnTop(w, h, r) ==
    [w |-> [w EXCEPT !.coal[h].ecp_compute_purchased = QAdd(@, r.allocated)], ecp |-> r.ecp]

\* Coalition.request_ecp_compute
Purchase(w, h, r) ==
    [w |-> [w EXCEPT !.coal[h].ecp_compute_purchased = r.allocated], ecp |-> r.ecp]

request_ecp_compute(w, ecp, h, nonce_range) ==
    Purchase(w, h, allocate_compute(ecp, h, nonce_range))

(***************************************************************************)
(* Pricing (Stackelberg game).  The code iterates in floating point; the   *)
(* model iterates in fixed point: prices on the grid of the numerical      *)
(* gradient step (1/100), utilities with four decimals and the learning   *)
(* rate with six.                                                          *)
(***************************************************************************)
PriceScale == 100
FixScale == 10000
LrScale == 1000000
STACKELBERG_LEARNING_RATE == 10000          \* 0.01, in units of 1/LrScale
STACKELBERG_STEP_DECAY == <<95, 100>>

\* floor(x * scale) for a rational x
ToFixed(x, scale) == (x[1] \div x[2]) * scale + ((x[1] % x[2]) * scale) \div x[2]

\* ECP._calculate_utility_at_price
\* max(0, (price - cost) * total_demand): total_demand is never negative, so
\* the product is positive only if price - cost is
calculate_utility_at_price(w, ecp, coalitions, price) ==
    LET demand == QSumSeq([i \in DOMAIN coalitions |->
                      calculate_optimal_compute_demand(w, coalitions[i], price,
                                                       ecp.operating_cost_per_hash)])
        total_demand == QMin(demand, ecp.total_capacity)
        margin == RSub(price, ecp.operating_cost_per_hash)
    IN  IF RLe(margin, Zero) THEN Zero
        ELSE RMax(Zero, QScale(total_demand, margin))

Clamp(lo, hi, x) == IF x < lo THEN lo ELSE IF x > hi THEN hi ELSE x

\* the numerical gradient (utility_plus - current_utility) / 0.01, in units of
\* 1/PriceScale; current_price is in units of 1/PriceScale
Gradient(w, ecp, coalitions, current_price) ==
    ToFixed(calculate_utility_at_price(w, ecp, coalitions,
                                       Rat(current_price + 1, PriceScale)), FixScale)
      - ToFixed(calculate_utility_at_price(w, ecp, coalitions,
                                           Rat(current_price, PriceScale)), FixScale)

\* the gradient ascent step and the clamp; learning_rate * gradient is taken in
\* two parts
PriceStep(current_price, learning_rate, gradient) ==
    Clamp(ToFixed(ECP_PRICE_MIN, PriceScale), ToFixed(ECP_PRICE_MAX, PriceScale),
          current_price +
              (learning_rate * (gradient \div 100)
                 + (learning_rate * (gradient % 100)) \div 100) \div (LrScale \div 100))

\* the value of a one-element set: its use below binds a loop variable to its
\* value before the next iteration starts
Only(S) == CHOOSE x \in S : TRUE

\* the variables of the loop of ECP.set_optimal_price, current_price and
\* learning_rate in fixed point; converged: the loop has been left by break
PriceVars(current_price, learning_rate, converged) ==
    [current_price |-> current_price, learning_rate |-> learning_rate,
     converged |-> converged]

\* the loop body after the gradient is computed
PriceUpdate(s, gradient) ==
    IF Abs(gradient) < 1 THEN [s EXCEPT !.converged = TRUE]
    ELSE PriceVars(PriceStep(s.current_price, s.learning_rate, gradient),
                   ToFixed(RMul(FromInt(s.learning_rate), STACKELBERG_STEP_DECAY), 1),
                   FALSE)

PriceIteration(w, ecp, coalitions, s) ==
    IF s.converged THEN s
    ELSE Only({PriceUpdate(s, gradient) :
                   gradient \in {Gradient(w, ecp, coalitions, s.current_price)}})

RECURSIVE PriceLoop(_, _, _, _, _)
\* n iterations of the loop from the variables s, as two halves
PriceLoop(w, ecp, coalitions, s, n) ==
    IF n = 0 THEN s
    ELSE IF n = 1 THEN PriceIteration(w, ecp, coalitions, s)
    ELSE Only({PriceLoop(w, ecp, coalitions, t, n - n \div 2) :
                   t \in {PriceLoop(w, ecp, coalitions, s, n \div 2)}})

\* ECP.set_optimal_price
set_optimal_price(w, ecp, coalitions) ==
    IF Len(coalitions) = 0 THEN ecp
    ELSE [ecp EXCEPT !.price_per_hash =
              Rat(PriceLoop(w, ecp, coalitions,
                            PriceVars(ToFixed(ecp.price_per_hash, PriceScale),
                                      STACKELBERG_LEARNING_RATE, FALSE),
                            STACKELBERG_MAX_ITERATIONS).current_price, PriceScale)]

\* update_membership_graph leaving the graph as it was
update_membership_graph_never(w, ecp, coalitions) == ecp

\* ECP.update_membership_graph: a sequence of <<coalition_id, set of miner ids>>,
\* a later entry for the same id overriding an earlier one
update_membership_graph(w, ecp, coalitions) ==
    [ecp EXCEPT !.membership_graph =
        [i \in DOMAIN coalitions |->
            <<w.coal[coalitions[i]].coalition_id, Range(w.coal[coalitions[i]].members)>>]]

\* membership_graph.get(coalition_id, set())
GraphGet(ecp, id) ==
    LET g == ecp.membership_graph
        hits == {i \in DOMAIN g : g[i][1] = id}
    IN  IF hits = {} THEN {}
        ELSE g[CHOOSE i \in hits : \A j \in hits : j <= i][2]

\* ECP.calculate_overlap_ratio
calculate_overlap_ratio(w, ecp, h1, h2) ==
    LET members1 == GraphGet(ecp, w.coal[h1].coalition_id)
        members2 == GraphGet(ecp, w.coal[h2].coalition_id)
        c1 == Cardinality(members1)
        c2 == Cardinality(members2)
    IN  IF c1 = 0 \/ c2 = 0 THEN Zero
        ELSE Rat(Cardinality(members1 \cap members2), IF c1 > c2 THEN c1 ELSE c2)

\* ECP.calculate_overlap_savings
calculate_overlap_savings(ecp, req1, req2, overlap_ratio) ==
    QScale(QMin(req1.nonce_range, req2.nonce_range),
           RMul(overlap_ratio, RMul(ecp.operating_cost_per_hash, OVERLAP_SAVINGS_FACTOR)))

\* savings of one pair of requests whose overlap ratio is known
PairSavings(ecp, req1, req2, overlap_ratio) ==
    IF RLe(OVERLAP_THRESHOLD, overlap_ratio)
    THEN calculate_overlap_savings(ecp, req1, req2, overlap_ratio)
    ELSE Zero

RECURSIVE SumSavings(_, _, _, _)
\* the loop over combinations(requests, 2)
SumSavings(w, ecp, requests, pairs) ==
    IF pairs = {} THEN Zero
    ELSE LET p == CHOOSE q \in pairs : TRUE
         IN  RAdd(PairSavings(ecp, requests[p[1]], requests[p[2]],
                      calculate_overlap_ratio(w, ecp, requests[p[1]].coalition,
                                              requests[p[2]].coalition)),
                  SumSavings(w, ecp, requests, pairs \ {p}))

\* ECP.optimize_overlapping_work
optimize_overlapping_work(w, ecp, requests) ==
    IF ~ECP_OPTIMIZATION_ENABLED THEN ecp
    ELSE IF Len(requests) < 2 THEN ecp
    ELSE [ecp EXCEPT
             !.overlap_savings =
                 RAdd(@, SumSavings(w, ecp, requests,
                          {p \in (DOMAIN requests) \X (DOMAIN requests) : p[1] < p[2]})),
             !.optimization_count = @ + 1]

(***************************************************************************)
(* One miner's turn in SimulationEngine.run_coalition_formation.           *)
(* coalitions is the engine's list self.coalitions (a sequence of handles).*)
(***************************************************************************)
Candidate(strategy, utility, target) ==
    [strategy |-> strategy, utility |-> utility, target |-> target]

\* len(miner.coalitions) < max_coalitions
UnderCap(w, m, max_coalitions) == Len(w.miners[m].coalitions) < max_coalitions

\* the MERGE candidates, in the order of the engine's list
MergeCandidates(w, coalitions, m, max_coalitions) ==
    LET Admissible(h) == ~InCoalitions(w, m, h) /\ check_definition_4(w, h, m)
        targets == SelectSeq(coalitions, Admissible)
    IN  IF UnderCap(w, m, max_coalitions)
        THEN [i \in DOMAIN targets |->
                 Candidate("MERGE", evaluate_coalition_utility(w, m, targets[i]), targets[i])]
        ELSE <<>>

SplitCandidates(w, m, max_coalitions) ==
    IF UnderCap(w, m, max_coalitions)
    THEN <<Candidate("SPLIT", evaluate_strategy_split(w, m), None)>>
    ELSE <<>>

LeaveCandidates(w, m) ==
    [i \in DOMAIN w.miners[m].coalitions |->
        Candidate("LEAVE", evaluate_strategy_leave(w, m, w.miners[m].coalitions[i]),
                  w.miners[m].coalitions[i])]

\* every strategy the turn evaluates, in evaluation order
Candidates(w, coalitions, m, max_coalitions) ==
    <<Candidate("STAY", get_total_utility(w, m), None)>>
      \o MergeCandidates(w, coalitions, m, max_coalitions)
      \o SplitCandidates(w, m, max_coalitions)
      \o LeaveCandidates(w, m)

\* utility >= best_strategy[1]: a candidate replaces its equal
ImprovesOrTies(utility, best_utility) == RLe(best_utility, utility)

\* utility < best_strategy[1]: the comparison reversed
ImprovesReversed(utility, best_utility) == RLt(utility, best_utility)

\* utility > best_strategy[1] + OCF_CONVERGENCE_EPSILON
Improves(utility, best_utility) == ExceedsBy(utility, best_utility, OcfEpsInv)

RECURSIVE Scan(_, _, _)
Scan(cands, best, i) ==
    IF i > Len(cands) THEN best
    ELSE Scan(cands, IF Improves(cands[i].utility, best.utility) THEN cands[i] ELSE best,
              i + 1)

\* best_strategy after all candidates have been evaluated
BestStrategy(cands) == Scan(cands, cands[1], 2)

\* a handle for the object a SPLIT constructs
FreshHandles(w) == {h \in DOMAIN w.coal : ~w.coal[h].alive}
FreshHandle(w) == CHOOSE h \in FreshHandles(w) : \A g \in FreshHandles(w) : h <= g

\* list.remove(target): drops the first element equal to target
ListRemove(w, coalitions, target) ==
    LET hits == {i \in DOMAIN coalitions : CoalEq(w, coalitions[i], target)}
    IN  IF hits = {} THEN coalitions
        ELSE RemoveAt(coalitions, CHOOSE i \in hits : \A j \in hits : i <= j)

TurnResult(w, coalitions, changes_made, best) ==
    [w |-> w, coalitions |-> coalitions, changes_made |-> changes_made, best |-> best]

\* if target.add_member(miner): miner.join_coalition(target)
ExecuteMerge(r, coalitions, m, best) ==
    IF r.ok
    THEN TurnResult(join_coalition(r.w, m, best.target).w, coalitions, TRUE, best)
    ELSE TurnResult(r.w, coalitions, FALSE, best)

\* Coalition(len(self.coalitions), miner), appended and joined
ExecuteSplit(w, coalitions, m, best, new_coalition) ==
    TurnResult(join_coalition([w EXCEPT !.coal[new_coalition] =
                                   NewCoalition(Len(coalitions), m)],
                              m, new_coalition).w,
               Append(coalitions, new_coalition), TRUE, best)

\* after target.remove_member(miner) and miner.leave_coalition(target)
ExecuteLeave(w, coalitions, best) ==
    TurnResult(w,
               IF Len(w.coal[best.target].members) = 0
               THEN ListRemove(w, coalitions, best.target) ELSE coalitions,
               TRUE, best)

\* "Execute best strategy"
Execute(w, coalitions, m, best) ==
    IF best.strategy = "MERGE"
    THEN ExecuteMerge(add_member(w, best.target, m), coalitions, m, best)
    ELSE IF best.strategy = "SPLIT"
    THEN ExecuteSplit(w, coalitions, m, best, FreshHandle(w))
    ELSE IF best.strategy = "LEAVE"
    THEN ExecuteLeave(leave_coalition(remove_member(w, best.target, m).w, m,
                                      best.target).w,
                      coalitions, best)
    ELSE TurnResult(w, coalitions, FALSE, best)

\* the body of "for miner in miners_order"
Turn(w, coalitions, m, max_coalitions) ==
    Execute(w, coalitions, m, BestStrategy(Candidates(w, coalitions, m, max_coalitions)))

(***************************************************************************)
(* SimulationEngine: initialization and the parts of a timestep.           *)
(***************************************************************************)
WARMUP_PERIOD == 50
COLLECTION_PERIOD == 100
TOTAL_SIMULATION_TIME == WARMUP_PERIOD + COLLECTION_PERIOD
OCF_PERIOD == 50

\* SCENARIOS: the settings the engine reads
Scenarios ==
    {[max_coalitions |-> 0, ecp_enabled |-> FALSE, smart_contract |-> FALSE],
     [max_coalitions |-> 1, ecp_enabled |-> TRUE, smart_contract |-> FALSE],
     [max_coalitions |-> 3, ecp_enabled |-> TRUE, smart_contract |-> TRUE]}

\* self.ecp = None
NoECP == [present |-> FALSE]

World(ms, cs) == [miners |-> ms, coal |-> cs]

\* min(3, max(1, N_MINERS // 5))
num_seed_coalitions ==
    LET q == NumMiners \div 5
        m == IF q < 1 THEN 1 ELSE q
    IN  IF m > 3 THEN 3 ELSE m

RECURSIVE CreateAndJoin(_, _, _)
\* for i, head in enumerate(heads): Coalition(i, head); head.join_coalition(it)
RECURSIVE CreateOnly(_, _, _)
\* the coalitions of initialize() created without "head_miner.join_coalition"
CreateOnly(w, heads, i) ==
    IF i > Len(heads) THEN w
    ELSE CreateOnly([w EXCEPT !.coal[i] = NewCoalition(i - 1, heads[i])], heads, i + 1)

RECURSIVE CreateAndJoinSameId(_, _, _)
\* the coalitions of initialize() all constructed with identifier 0
CreateAndJoinSameId(w, heads, i) ==
    IF i > Len(heads) THEN w
    ELSE CreateAndJoinSameId(
             join_coalition([w EXCEPT !.coal[i] = NewCoalition(0, heads[i])],
                            heads[i], i).w,
             heads, i + 1)

CreateAndJoin(w, heads, i) ==
    IF i > Len(heads) THEN w
    ELSE CreateAndJoin(
             join_coalition([w EXCEPT !.coal[i] = NewCoalition(i - 1, heads[i])],
                            heads[i], i).w,
             heads, i + 1)

\* initialize with the solo coalitions created in every scenario, after the seeds
initialize_solo_too(hashrates, available_miners, scenario) ==
    LET w0 == World([m \in Miners |-> NewMiner(hashrates[m])],
                    [h \in Handles |-> NoCoalition])
        heads == (IF scenario.max_coalitions > 0
                  THEN SubSeq(available_miners, 1, num_seed_coalitions) ELSE <<>>)
                     \o [i \in 1..NumMiners |-> i]
    IN  [w |-> CreateAndJoin(w0, heads, 1),
         coalitions |-> [i \in DOMAIN heads |-> i],
         ecp |-> IF scenario.ecp_enabled THEN NewECP ELSE NoECP]

\* SimulationEngine.initialize: hashrates are the sampled hashrates,
\* available_miners the shuffled list of miners
initialize(hashrates, available_miners, scenario) ==
    LET w0 == World([m \in Miners |-> NewMiner(hashrates[m])],
                    [h \in Handles |-> NoCoalition])
        heads == IF scenario.max_coalitions > 0
                 THEN SubSeq(available_miners, 1, num_seed_coalitions)
                 ELSE [i \in 1..NumMiners |-> i]
    IN  [w |-> CreateAndJoin(w0, heads, 1),
         coalitions |-> [i \in DOMAIN heads |-> i],
         ecp |-> IF scenario.ecp_enabled THEN NewECP ELSE NoECP]

\* Coalition.get_effective_hashrate: member work plus purchased compute
get_effective_hashrate(w, h) ==
    QAdd(QHu(get_total_work(w, h)), w.coal[h].ecp_compute_purchased)

\* if optimal_compute > 0: coalition.request_ecp_compute(self.ecp, optimal_compute)
RequestIfPositive(w, ecp, h, optimal_compute) ==
    IF QLt(QZero, optimal_compute)
    THEN request_ecp_compute(w, ecp, h, optimal_compute)
    ELSE [w |-> w, ecp |-> ecp]

RECURSIVE RequestLoop(_, _, _)
\* the loop of SimulationEngine.coalitions_request_compute; r is <<w, ecp>> so far
RequestLoop(r, coalitions, i) ==
    IF i > Len(coalitions) THEN r
    ELSE RequestLoop(
             RequestIfPositive(r.w, r.ecp, coalitions[i],
                 calculate_optimal_compute_demand(r.w, coalitions[i],
                     r.ecp.price_per_hash, r.ecp.operating_cost_per_hash)),
             coalitions, i + 1)

\* "Apply overlap optimization"
OptimizeRequests(r) ==
    [w |-> r.w,
     ecp |-> IF ECP_OPTIMIZATION_ENABLED
             THEN optimize_overlapping_work(r.w, r.ecp, r.ecp.compute_requests)
             ELSE r.ecp]

\* SimulationEngine.coalitions_request_compute
coalitions_request_compute(w, ecp, coalitions) ==
    IF ~ecp.present THEN [w |-> w, ecp |-> ecp]
    ELSE OptimizeRequests(RequestLoop([w |-> w, ecp |-> ecp], coalitions, 1))

\* random.choices picking any coalition of the list, whatever its weight
PossibleWinnersAny(w, coalitions) == Range(coalitions)

\* the coalitions get_block_finder can return: random.choices never picks a
\* weight of zero, and no block is found when the total hashrate is zero
PossibleWinners(w, coalitions) ==
    {coalitions[i] : i \in {j \in DOMAIN coalitions :
                               QLt(QZero, get_effective_hashrate(w, coalitions[j]))}}

\* "total_hashrate += coalition.get_effective_hashrate()" over the list
TotalHashrate(w, coalitions) ==
    QSumSeq([i \in DOMAIN coalitions |-> get_effective_hashrate(w, coalitions[i])])

\* get_block_finder: None when the total is not positive or the uniform draw
\* is not under the discovery probability, else a weighted choice
get_block_finder(w, coalitions, total_network_hashrate) ==
    IF ~QLt(QZero, total_network_hashrate) THEN {None}
    ELSE {None} \cup PossibleWinners(w, coalitions)

\* SimulationEngine.attempt_block_discovery up to the choice of the winner:
\* the coalitions it can hand to handle_block_found, None for no block
attempt_block_discovery(w, coalitions) ==
    IF Len(coalitions) = 0 THEN {None}
    ELSE IF TotalHashrate(w, coalitions) = QZero THEN {None}
    ELSE get_block_finder(w, coalitions, TotalHashrate(w, coalitions))

\* coalition.blocks_found += 1
\* "coalition.blocks_found += 1" left out
CountBlockNot(w, h) == w

CountBlock(w, h) == [w EXCEPT !.coal[h].blocks_found = @ + 1]

RECURSIVE ClearAll(_, _, _)
\* "for miner in self.miners: miner.clear_transactions(selected_transactions)"
ClearAll(w, transactions, m) ==
    IF m > NumMiners THEN w
    ELSE ClearAll(clear_transactions(w, m, Range(transactions)), transactions, m + 1)

\* SimulationEngine.handle_block_found on coalition h: the world and the global
\* pool it leaves, the transactions it selected and the reward it distributed
\* handle_block_found counting only the fixed block reward in the engine's
\* total, while the coalition is given reward and fees
handle_block_found_fees_uncounted(w, ecp, h, pool, theft) ==
    LET selected_transactions ==
            select_transactions_for_block(w, h, TRANSACTIONS_PER_BLOCK_I)
        total_reward == RAdd(FromInt(BLOCK_REWARD_B), FeeSum(selected_transactions))
        rewarded == CountBlock(distribute_rewards(w, h, total_reward,
                                   IF ecp.present THEN ecp.price_per_hash ELSE Zero,
                                   theft).w, h)
    IN  [w |-> ClearAll(rewarded, selected_transactions, 1),
         global_transaction_pool |-> Without(pool, Range(selected_transactions)),
         selected_transactions |-> selected_transactions,
         total_reward |-> FromInt(BLOCK_REWARD_B)]

handle_block_found(w, ecp, h, pool, theft) ==
    LET selected_transactions ==
            select_transactions_for_block(w, h, TRANSACTIONS_PER_BLOCK_I)
        total_reward == RAdd(FromInt(BLOCK_REWARD_B), FeeSum(selected_transactions))
        rewarded == CountBlock(distribute_rewards(w, h, total_reward,
                                   IF ecp.present THEN ecp.price_per_hash ELSE Zero,
                                   theft).w, h)
    IN  [w |-> ClearAll(rewarded, selected_transactions, 1),
         global_transaction_pool |-> Without(pool, Range(selected_transactions)),
         selected_transactions |-> selected_transactions,
         total_reward |-> total_reward]

(***************************************************************************)
(* Metrics (SimulationEngine.record_metrics).  bandwidth_kb, computed from *)
(* the numbers of transactions the miners hold, is not part of a snapshot  *)
(* here.                                                                   *)
(***************************************************************************)
METRICS_PERIOD == 10

\* self.current_metrics = {}
NoMetrics == [recorded |-> FALSE]

\* money per hash: an amount of money over a quantity of compute (not zero)
PerHash(amount, q) ==
    IF q[1] = Zero THEN RDiv(amount, q[2])
    ELSE RDiv(amount, RAdd(RMul(q[1], FromInt(HashUnit)), q[2]))

\* ECP.calculate_utility: the provider's profit at the effective operating
\* cost, which the accumulated overlap savings reduce, never below zero
calculate_utility(e) ==
    LET cost_reduction ==
            IF QLt(QZero, e.total_demand) THEN PerHash(e.overlap_savings, e.total_demand)
            ELSE Zero
        adjusted_cost ==
            IF ECP_OPTIMIZATION_ENABLED /\ RLt(Zero, e.overlap_savings)
            THEN RMax(Zero, RSub(e.operating_cost_per_hash, cost_reduction))
            ELSE e.operating_cost_per_hash
    IN  RMax(Zero, QScale(e.total_demand, RSub(e.price_per_hash, adjusted_cost)))

\* single_run: "if t % 10 == 0" in the collection period
\* a snapshot at every METRICS_PERIOD-th timestep, warmup included
SnapshotDueInWarmupToo(time) == time % METRICS_PERIOD = 0

SnapshotDue(time) == time >= WARMUP_PERIOD /\ time % METRICS_PERIOD = 0

\* ECP.get_total_demand
get_total_demand(e) == e.total_demand

\* simulation.utils.calculate_ecp_utility
calculate_ecp_utility(e) ==
    RMax(Zero, QScale(get_total_demand(e),
                      RSub(e.price_per_hash, e.operating_cost_per_hash)))

\* simulation.utils.calculate_system_utility
calculate_system_utility(w, e) ==
    RAdd(IF e.present THEN calculate_ecp_utility(e) ELSE Zero,
         IF e.present
         THEN RSumSeq([m \in Miners |-> get_total_utility(w, m)])
         ELSE RSumSeq([m \in Miners |-> w.miners[m].total_earnings]))

\* sum(len(c.members) for c in self.coalitions) / len(self.coalitions)
AverageSize(w, cl) ==
    IF Len(cl) = 0 THEN Zero
    ELSE Rat(RSumSeq([i \in DOMAIN cl |->
                 FromInt(Len(w.coal[cl[i]].members))])[1], Len(cl))

\* record_metrics reporting the configured initial price when there is no provider
record_metrics_initial_price(w, e, cl, time, found, rewards) ==
    [recorded |-> TRUE, time |-> time,
     ecp_utility |-> IF e.present THEN calculate_ecp_utility(e) ELSE Zero,
     system_utility |-> calculate_system_utility(w, e),
     total_nonce_length |-> IF e.present THEN get_total_demand(e) ELSE QZero,
     avg_coalition_size |-> AverageSize(w, cl),
     num_coalitions |-> Len(cl),
     blocks_found |-> found,
     total_rewards |-> rewards,
     ecp_price |-> IF e.present THEN e.price_per_hash ELSE ECP_INITIAL_PRICE]

\* SimulationEngine.record_metrics: the snapshot appended to metrics_history
record_metrics(w, e, cl, time, found, rewards) ==
    [recorded |-> TRUE, time |-> time,
     ecp_utility |-> IF e.present THEN calculate_ecp_utility(e) ELSE Zero,
     system_utility |-> calculate_system_utility(w, e),
     total_nonce_length |-> IF e.present THEN get_total_demand(e) ELSE QZero,
     avg_coalition_size |-> AverageSize(w, cl),
     num_coalitions |-> Len(cl),
     blocks_found |-> found,
     total_rewards |-> rewards,
     ecp_price |-> IF e.present THEN e.price_per_hash ELSE Zero]

(***************************************************************************)
(* State.                                                                  *)
(***************************************************************************)
VARIABLES
    miners,         \* the Miner objects
    coal,           \* the Coalition objects, by handle
    coalitions,     \* SimulationEngine.coalitions: list of handles
    ecp,            \* the ECP object, or NoECP
    config,         \* the scenario settings
    pc,             \* position of the run: "step", "ocf", "rest", "done"; "api" outside a run
    current_time,   \* SimulationEngine.current_time
    ocf,            \* the loop variables of run_coalition_formation
    blocks_found,   \* SimulationEngine.blocks_found
    total_rewards_distributed,
    rounds,         \* formation rounds completed in this run
    lastOp,         \* the operation last executed, its arguments and result
    nops,           \* operations executed by an API-level client
    current_metrics, \* SimulationEngine.current_metrics: the last snapshot
    global_transaction_pool, \* SimulationEngine.global_transaction_pool
    runs,           \* run(): configured seed, generator of the random module, results
    twin,           \* a second execution of run() under the same configuration
    sweep,          \* _run_sweep: the parameter, its range, the results so far
    included        \* history: identifiers of the transactions put into blocks of the run

vars == <<miners, coal, coalitions, ecp, config, pc, current_time, ocf, blocks_found,
          total_rewards_distributed, rounds, lastOp, nops, current_metrics,
          global_transaction_pool, runs, twin, sweep, included>>

W == World(miners, coal)

NoOcf == [iteration |-> 0, changes_made |-> FALSE, remaining |-> {}]

\* RANDOM_SEED = None: no seed configured; the generator plays no part in the
\* specifications whose actions choose the random outcomes themselves
NoRuns ==
    [seed |-> None, state |-> 0, run_num |-> 0, metrics_history |-> <<>>, all_results |-> <<>>]
NoTwin == [present |-> FALSE]
\* no sweep is being run
NoSweep == [present |-> FALSE]

\* the shuffles of the list of miners
Shuffles == {s \in [1..NumMiners -> Miners] : \A i, j \in 1..NumMiners : s[i] = s[j] => i = j}

\* the fees drawn by get_transaction_fee_sample at initialization: the fee of
\* transaction tx_id is (k * (tx_id + 1)) modulo the width of the fee range,
\* above TRANSACTION_FEE_MIN, so that the fees of a pool differ
FeeMultipliers == {8, 37}

FeeSample(k, tx_id) ==
    TRANSACTION_FEE_MIN + ((k * (tx_id + 1)) % (TRANSACTION_FEE_MAX - TRANSACTION_FEE_MIN + 1))

\* "self.global_transaction_pool = {Transaction(i, fee) for i in range(TOTAL_TRANSACTIONS)}"
InitialPool(k) == {Transaction(tx_id, FeeSample(k, tx_id)) : tx_id \in 0..(MaxTx - 1)}

(***************************************************************************)
(* Spec: one run of the engine (SimulationEngine.single_run).              *)
(***************************************************************************)
Init ==
    \E hashrates \in [Miners -> 1..MaxHash], order \in Shuffles, scenario \in Scenarios,
       k \in FeeMultipliers :
        LET i == initialize(hashrates, order, scenario)
        IN  /\ global_transaction_pool = InitialPool(k)
            /\ miners = i.w.miners
            /\ coal = i.w.coal
            /\ coalitions = i.coalitions
            /\ ecp = i.ecp
            /\ config = scenario
            /\ runs = NoRuns
            /\ twin = NoTwin
            /\ included = {}
            /\ sweep = NoSweep
            /\ pc = "step"
            /\ current_time = 0
            /\ ocf = NoOcf
            /\ blocks_found = 0
            /\ total_rewards_distributed = Zero
            /\ rounds = 0
            /\ lastOp = [op |-> "initialize"]
            /\ nops = 0
            /\ current_metrics = NoMetrics

\* the formation game run at every OCF_PERIOD-th timestep, whatever the scenario
FormationDueAlways(time, max_coalitions) == time % OCF_PERIOD = 0

\* "if time % 50 == 0 and max_coalitions > 0" (run_coalition_formation itself
\* returns at once when max_coalitions == 0)
FormationDue(time, max_coalitions) == time % OCF_PERIOD = 0 /\ max_coalitions > 0

\* step(t), up to the call of run_coalition_formation
StepBegin ==
    /\ pc = "step"
    /\ current_time < TOTAL_SIMULATION_TIME
    /\ IF FormationDue(current_time, config.max_coalitions)
       THEN /\ pc' = "ocf"
            /\ ocf' = [iteration |-> 0, changes_made |-> FALSE, remaining |-> Miners]
       ELSE /\ pc' = "rest"
            /\ ocf' = ocf
    /\ lastOp' = [op |-> "step", time |-> current_time]
    /\ UNCHANGED <<miners, coal, coalitions, ecp, config, runs, twin, sweep, included, current_time, blocks_found,
                   total_rewards_distributed, rounds, nops, current_metrics, global_transaction_pool>>

\* one miner's turn on the current state: the strategy is chosen, then executed
\* (a SPLIT needs an unused coalition object)
TakeTurn(m) ==
    \E best \in {BestStrategy(Candidates(W, coalitions, m, config.max_coalitions))} :
        /\ best.strategy = "SPLIT" => FreshHandles(W) # {}
        /\ \E r \in {Execute(W, coalitions, m, best)} :
               /\ miners' = r.w.miners
               /\ coal' = r.w.coal
               /\ coalitions' = r.coalitions
               /\ ocf' = [ocf EXCEPT !.changes_made = @ \/ r.changes_made,
                                     !.remaining = @ \ {m}]
               /\ lastOp' = [op |-> "turn", m |-> m, best |-> r.best,
                             changes_made |-> r.changes_made]

\* the turn of the next miner of the shuffled order
OcfTurn(m) ==
    /\ pc = "ocf"
    /\ m \in ocf.remaining
    /\ TakeTurn(m)
    /\ UNCHANGED <<ecp, config, runs, twin, sweep, included, pc, current_time, blocks_found,
                   total_rewards_distributed, rounds, nops, current_metrics, global_transaction_pool>>

\* the for loop running out, without the break
RoundOverAtCap(changes_made, iteration) == iteration + 1 >= OCF_MAX_ITERATIONS

\* "if not changes_made: break", or the for loop running out
RoundOver(changes_made, iteration) ==
    ~changes_made \/ iteration + 1 >= OCF_MAX_ITERATIONS

\* the end of an iteration of run_coalition_formation
OcfIterationEnd ==
    /\ pc = "ocf"
    /\ ocf.remaining = {}
    /\ IF RoundOver(ocf.changes_made, ocf.iteration)
       THEN /\ pc' = "rest"
            /\ ocf' = ocf
            /\ rounds' = rounds + 1
            /\ ecp' = IF ecp.present /\ ECP_OPTIMIZATION_ENABLED
                      THEN update_membership_graph(W, ecp, coalitions) ELSE ecp
            /\ lastOp' = [op |-> "round_end", iterations |-> ocf.iteration + 1]
       ELSE /\ pc' = "ocf"
            /\ ocf' = [iteration |-> ocf.iteration + 1, changes_made |-> FALSE,
                       remaining |-> Miners]
            /\ UNCHANGED <<rounds, ecp>>
            /\ lastOp' = [op |-> "iteration_end", iterations |-> ocf.iteration + 1]
    /\ UNCHANGED <<miners, coal, coalitions, config, runs, twin, sweep, included, current_time, blocks_found,
                   total_rewards_distributed, nops, current_metrics, global_transaction_pool>>

\* set_optimal_price (every OCF_PERIOD timesteps) and coalitions_request_compute
PriceAndRequest(w, e, cl, time) ==
    coalitions_request_compute(w,
        IF e.present /\ time % OCF_PERIOD = 0 THEN set_optimal_price(w, e, cl) ELSE e, cl)

\* the outcomes of random.random() < THEFT_PROBABILITY, drawn only when smart
\* contracts are off
TheftOutcomes == IF SMART_CONTRACT_ENABLED THEN {FALSE} ELSE BOOLEAN

\* handle_block_found for the winner of this timestep
BlockFound(r, winner, theft) ==
    /\ blocks_found < MaxBlocks
    /\ \E b \in {handle_block_found(r.w, r.ecp, winner, global_transaction_pool, theft)} :
           /\ miners' = b.w.miners
           /\ coal' = b.w.coal
           /\ global_transaction_pool' = b.global_transaction_pool
           /\ total_rewards_distributed' = RAdd(total_rewards_distributed, b.total_reward)
           /\ lastOp' = [op |-> "step_end", time |-> current_time, winner |-> winner,
                         selected_transactions |-> b.selected_transactions]
           /\ included' = included \cup TxIds(Range(b.selected_transactions))
    /\ blocks_found' = blocks_found + 1

\* get_block_finder returned None, or attempt_block_discovery returned early
NoBlockFound(r) ==
    /\ miners' = r.w.miners
    /\ coal' = r.w.coal
    /\ UNCHANGED <<blocks_found, total_rewards_distributed, global_transaction_pool,
                   included>>
    /\ lastOp' = [op |-> "step_end", time |-> current_time, winner |-> None,
                  selected_transactions |-> <<>>]

\* step(t) after the formation game: the miners collect transactions, the
\* coalitions aggregate them, then pricing, compute requests, block discovery
\* and the reset of the provider's load; then single_run records the metrics
StepRest ==
    /\ pc = "rest"
    /\ \E collected \in MinersCollect(W, global_transaction_pool, 1) :
       \E r \in {PriceAndRequest(AggregateAll(collected, coalitions, 1), ecp, coalitions,
                                 current_time)} :
         /\ \E winner \in attempt_block_discovery(r.w, coalitions) :
                IF winner = None THEN NoBlockFound(r)
                ELSE \E theft \in TheftOutcomes : BlockFound(r, winner, theft)
         /\ ecp' = IF ecp.present THEN reset_load(r.ecp) ELSE r.ecp
    /\ current_metrics' =
           IF SnapshotDue(current_time)
           THEN record_metrics(World(miners', coal'), ecp', coalitions, current_time,
                               blocks_found', total_rewards_distributed')
           ELSE current_metrics
    /\ current_time' = current_time + 1
    /\ pc' = IF current_time + 1 >= TOTAL_SIMULATION_TIME THEN "done" ELSE "step"
    /\ UNCHANGED <<coalitions, config, runs, twin, sweep, ocf, rounds, nops>>

Next ==
    \/ StepBegin
    \/ \E m \in Miners : OcfTurn(m)
    \/ OcfIterationEnd
    \/ StepRest

Spec == Init /\ [][Next]_vars

(***************************************************************************)
(* SpecApi: a client calling the operations of Miner and Coalition, in any *)
(* order, on miners and coalitions it has constructed; a miner's turn of   *)
(* the formation game is one of the operations.                            *)
(***************************************************************************)
\* block rewards (fees included) passed to distribute_rewards: one below the
\* provider's bill for ApiAmounts, the bare block reward, and one that leaves a
\* sole member who bought ApiAmounts a utility of 999.995
ApiRewards == {<<100, 1>>, FromInt(BLOCK_REWARD_B), <<279999, 200>>}
\* amounts of compute requested
ApiAmounts == {QHs(One)}
\* the scenario the client plays a miner's turn under (multi_coalition_j3_naive)
ApiScenario == [max_coalitions |-> 3, ecp_enabled |-> TRUE, smart_contract |-> TRUE]

InitApi ==
    \E hashrates \in [Miners -> 1..MaxHash], heads \in [ApiHandles -> Miners \cup {None}] :
        /\ global_transaction_pool = {}
        /\ miners = [m \in Miners |-> NewMiner(hashrates[m])]
        /\ coal = [h \in Handles |->
                      IF h \in ApiHandles THEN NewCoalition(h - 1, heads[h]) ELSE NoCoalition]
        /\ coalitions = [i \in 1..ApiCoalitions |-> i]
        /\ ecp = NewECP
        /\ config = ApiScenario
        /\ runs = NoRuns
        /\ twin = NoTwin
        /\ included = {}
        /\ sweep = NoSweep
        /\ pc = "api"
        /\ current_time = 0
        /\ ocf = NoOcf
        /\ blocks_found = 0
        /\ total_rewards_distributed = Zero
        /\ rounds = 0
        /\ lastOp = [op |-> "init"]
        /\ nops = 0
        /\ current_metrics = NoMetrics

\* what an API call leaves alone besides the objects it works on
ApiFrame ==
    /\ pc = "api"
    /\ nops < MaxOps
    /\ nops' = nops + 1
    /\ UNCHANGED <<config, runs, twin, sweep, included, pc, current_time, blocks_found, total_rewards_distributed,
                   rounds, current_metrics, global_transaction_pool>>

\* an operation on miners and coalitions only, returning Ret(w, ok)
ApiCall(r, op, h, m) ==
    /\ miners' = r.w.miners
    /\ coal' = r.w.coal
    /\ lastOp' = [op |-> op, h |-> h, m |-> m, ok |-> r.ok]
    /\ UNCHANGED <<coalitions, ecp, ocf>>

AddMember(h, m) == ApiFrame /\ ApiCall(add_member(W, h, m), "add_member", h, m)

RemoveMember(h, m) == ApiFrame /\ ApiCall(remove_member(W, h, m), "remove_member", h, m)

JoinCoalition(m, h) == ApiFrame /\ ApiCall(join_coalition(W, m, h), "join_coalition", h, m)

LeaveCoalition(m, h) == ApiFrame /\ ApiCall(leave_coalition(W, m, h), "leave_coalition", h, m)

RequestEcpCompute(h, nonce_range) ==
    /\ ApiFrame
    /\ \E r \in {request_ecp_compute(W, ecp, h, nonce_range)} :
           /\ miners' = r.w.miners
           /\ coal' = r.w.coal
           /\ ecp' = r.ecp
    /\ lastOp' = [op |-> "request_ecp_compute", h |-> h, nonce_range |-> nonce_range]
    /\ UNCHANGED <<coalitions, ocf>>

\* as the engine calls it: with the provider's current price
DistributeRewards(h, block_reward, theft) ==
    /\ ApiFrame
    /\ \E r \in {distribute_rewards(W, h, block_reward, ecp.price_per_hash, theft)} :
           /\ miners' = r.w.miners
           /\ coal' = r.w.coal
           /\ lastOp' = [op |-> "distribute_rewards", h |-> h, block_reward |-> block_reward,
                         theft |-> theft, ok |-> r.ok]
    /\ UNCHANGED <<coalitions, ecp, ocf>>

GameTurn(m) ==
    /\ ApiFrame
    /\ TakeTurn(m)
    /\ UNCHANGED ecp

NextApi ==
    \/ \E h \in ApiHandles, m \in Miners : AddMember(h, m)
    \/ \E h \in ApiHandles, m \in Miners : RemoveMember(h, m)
    \/ \E h \in ApiHandles, m \in Miners : JoinCoalition(m, h)
    \/ \E h \in ApiHandles, m \in Miners : LeaveCoalition(m, h)
    \/ \E h \in ApiHandles, nonce_range \in ApiAmounts : RequestEcpCompute(h, nonce_range)
    \/ \E h \in ApiHandles, block_reward \in ApiRewards, theft \in TheftOutcomes :
           DistributeRewards(h, block_reward, theft)
    \/ \E m \in Miners : GameTurn(m)

SpecApi == InitApi /\ [][NextApi]_vars

(***************************************************************************)
(* The engine driven by the generator of the random module.  The generator *)
(* is a linear congruential one: what matters to the engine is that every  *)
(* draw is a function of the generator's state, and that seeding sets the  *)
(* state.  An execution is the record of the engine's fields with `runs`.  *)
(***************************************************************************)
\* the generator after one draw
Advance(g) == (g * 75 + 74) % 65537

\* the draw itself, as random.randrange(n)
Below(g, n) == g % n

\* random.seed(RANDOM_SEED)
Seeded(seed) == seed % 65537

\* reset_random_seeds leaving the generator as it is
reset_random_seeds_never(g, seed) == g

\* reset_random_seeds: "if RANDOM_SEED is not None: random.seed(RANDOM_SEED)"
reset_random_seeds(g, seed) == IF seed # None THEN Seeded(seed) ELSE g

RECURSIVE HashrateSamples(_, _)
\* get_hashrate_sample for the miners from the m-th on
HashrateSamples(g, m) ==
    IF m > NumMiners THEN [out |-> <<>>, state |-> g]
    ELSE Only({[out |-> <<1 + Below(g, MaxHash)>> \o rest.out, state |-> rest.state] :
                  rest \in {HashrateSamples(Advance(g), m + 1)}})

RECURSIVE Shuffle(_, _, _)
\* random.shuffle(x): for i from the last index down to the second,
\* x[i] is exchanged with x[j], j drawn among the first i
Shuffle(x, g, i) ==
    IF i < 2 THEN [out |-> x, state |-> g]
    ELSE Only({Shuffle([x EXCEPT ![i] = x[j], ![j] = x[i]], Advance(g), i - 1) :
                  j \in {1 + Below(g, i)}})

RECURSIVE SeededPool(_, _)
\* the transactions from tx_id on, each with a fee from get_transaction_fee_sample
SeededPool(g, tx_id) ==
    IF tx_id >= MaxTx THEN [out |-> {}, state |-> g]
    ELSE Only({[out |-> {Transaction(tx_id, TRANSACTION_FEE_MIN
                              + Below(g, TRANSACTION_FEE_MAX - TRANSACTION_FEE_MIN + 1))}
                          \cup rest.out,
                state |-> rest.state] :
                  rest \in {SeededPool(Advance(g), tx_id + 1)}})

\* the order of the seeds of the coalitions: "random.shuffle(available_miners)"
SeedOrder(max_coalitions, g) ==
    IF max_coalitions > 0 THEN Shuffle([i \in 1..NumMiners |-> i], g, NumMiners)
    ELSE [out |-> [i \in 1..NumMiners |-> i], state |-> g]

\* SimulationEngine.initialize of execution s
SeededInitialize(s) ==
    Only({[s EXCEPT !.miners = i.w.miners, !.coal = i.w.coal, !.coalitions = i.coalitions,
                    !.ecp = i.ecp, !.global_transaction_pool = p.out, !.pc = "step",
                    !.current_time = 0, !.ocf = NoOcf, !.blocks_found = 0,
                    !.total_rewards_distributed = Zero, !.rounds = 0,
                    !.runs.state = p.state, !.runs.metrics_history = <<>>] :
             <<i, p>> \in UNION {UNION {
                 {<<initialize([m \in Miners |-> h.out[m]], sh.out, s.config),
                    SeededPool(sh.state, 0)>>} :
                 sh \in {SeedOrder(s.config.max_coalitions, h.state)}} :
                 h \in {HashrateSamples(reset_random_seeds(s.runs.state, s.runs.seed), 1)}}})

\* random.random() < p is decided on a draw among ProbabilityGrain equal parts
ProbabilityGrain == 8

\* base_prob = 1 - exp(-total_network_hashrate / difficulty), in parts of the
\* grain: it grows with the hashrate and stays below 1; the difficulty is taken
\* so that a hash unit of hashrate is worth one part
BaseProbParts(total_network_hashrate) ==
    Only({IF units < ProbabilityGrain THEN units ELSE ProbabilityGrain - 1 :
             units \in {total_network_hashrate[1][1] \div total_network_hashrate[1][2]}})

\* THEFT_PROBABILITY = 0.01, in hundredths
TheftParts == 1

\* the start of an iteration of run_coalition_formation:
\* "miners_order = self.miners.copy(); random.shuffle(miners_order)"
SeededIteration(s, iteration) ==
    Only({[s EXCEPT !.pc = "ocf",
                    !.ocf = [iteration |-> iteration, changes_made |-> FALSE,
                             remaining |-> Miners, order |-> sh.out],
                    !.runs.state = sh.state] :
             sh \in {Shuffle([i \in 1..NumMiners |-> i], s.runs.state, NumMiners)}})

\* step(t), up to the call of run_coalition_formation
SeededBegin(s) ==
    IF FormationDue(s.current_time, s.config.max_coalitions)
    THEN SeededIteration(s, 0)
    ELSE [s EXCEPT !.pc = "rest"]

\* the turn of the next miner of miners_order
SeededTurn(s) ==
    Only({[s EXCEPT !.miners = r.w.miners, !.coal = r.w.coal, !.coalitions = r.coalitions,
                    !.ocf.changes_made = @ \/ r.changes_made,
                    !.ocf.remaining = @ \ {Head(s.ocf.order)},
                    !.ocf.order = Tail(@)] :
             r \in {Turn(World(s.miners, s.coal), s.coalitions, Head(s.ocf.order),
                         s.config.max_coalitions)}})

\* the end of an iteration of run_coalition_formation
SeededIterationEnd(s) ==
    IF RoundOver(s.ocf.changes_made, s.ocf.iteration)
    THEN [s EXCEPT !.pc = "rest", !.rounds = @ + 1,
                   !.ecp = IF s.ecp.present /\ ECP_OPTIMIZATION_ENABLED
                           THEN update_membership_graph(World(s.miners, s.coal), s.ecp,
                                                        s.coalitions)
                           ELSE s.ecp]
    ELSE SeededIteration(s, s.ocf.iteration + 1)

RECURSIVE SeededSample(_, _, _)
\* random.sample(available, k) on the generator g
SeededSample(available, k, g) ==
    IF k = 0 THEN [out |-> {}, state |-> g]
    ELSE Only({[out |-> {available[j]} \cup rest.out, state |-> rest.state] :
                  <<j, rest>> \in UNION {
                      {<<i, SeededSample(RemoveAt(available, i), k - 1, Advance(g))>>} :
                      i \in {1 + Below(g, Len(available))}}})

\* "num_to_collect = min(num_to_collect, len(available))" and random.sample,
\* skipped when nothing is available
SampleAvailable(available, wanted, g) ==
    IF Len(available) > 0
    THEN SeededSample(available, IF wanted < Len(available) THEN wanted ELSE Len(available), g)
    ELSE [out |-> {}, state |-> g]

RECURSIVE SeededMinersCollect(_, _, _, _)
\* miners_collect_transactions from miner m on, on the generator g
SeededMinersCollect(w, pool, g, m) ==
    IF m > NumMiners THEN [w |-> w, state |-> g]
    ELSE Only({SeededMinersCollect(collect_transactions(w, m, sample.out), pool,
                                   sample.state, m + 1) :
                  sample \in {SampleAvailable(
                                 InIdOrder(Without(pool, w.miners[m].transactions)),
                                 transaction_collection_rate(w, m) * TIMESTEP, g)}})

RECURSIVE FirstAbove(_, _, _, _, _)
\* random.choices(coalition_list, weights): the first coalition at which the
\* running sum of the weights exceeds the target
FirstAbove(w, coalition_list, target, i, sum) ==
    Only({IF i >= Len(coalition_list) \/ QLt(target, here) THEN coalition_list[i]
          ELSE FirstAbove(w, coalition_list, target, i + 1, here) :
             here \in {QAdd(sum, get_effective_hashrate(w, coalition_list[i]))}})

\* the point random.choices aims at: the u-th part of the total weight
ChoiceTarget(total, u) ==
    Only({<<RMul(total[1], part), RMul(total[2], part)>> :
             part \in {Rat(u, ProbabilityGrain)}})

\* attempt_block_discovery on the generator g: the winner, or None
SeededFinder(w, coalition_list, g) ==
    IF attempt_block_discovery(w, coalition_list) = {None}
    THEN [winner |-> None, state |-> g]
    ELSE Only({IF ~(Below(g, ProbabilityGrain) < BaseProbParts(total))
               THEN [winner |-> None, state |-> Advance(g)]
               ELSE [winner |-> FirstAbove(w, coalition_list,
                                    ChoiceTarget(total, Below(Advance(g), ProbabilityGrain)),
                                    1, QZero),
                     state |-> Advance(Advance(g))] :
                  total \in {TotalHashrate(w, coalition_list)}})

\* handle_block_found for the winner the generator gave, if any
SeededBlock(s, r, f) ==
    IF f.winner = None
    THEN [w |-> r.w, ecp |-> r.ecp, state |-> f.state, found |-> 0, reward |-> Zero,
          pool |-> s.global_transaction_pool]
    ELSE Only({[w |-> b.w, ecp |-> r.ecp,
                state |-> IF SMART_CONTRACT_ENABLED THEN f.state ELSE Advance(f.state),
                found |-> 1, reward |-> b.total_reward, pool |-> b.global_transaction_pool] :
                  b \in {handle_block_found(r.w, r.ecp, f.winner, s.global_transaction_pool,
                             ~SMART_CONTRACT_ENABLED /\ Below(f.state, 100) < TheftParts)}})

\* the end of step(t): reset_load, the counters and the clock; single_run then
\* records a snapshot every METRICS_PERIOD timesteps after the warmup
SeededStepEnd(s, b, e, found, rewards) ==
    Only({[s EXCEPT !.miners = b.w.miners, !.coal = b.w.coal, !.ecp = e,
                    !.global_transaction_pool = b.pool,
                    !.blocks_found = found, !.total_rewards_distributed = rewards,
                    !.current_metrics = IF snapshot.recorded THEN snapshot ELSE @,
                    !.runs.state = b.state,
                    !.runs.metrics_history =
                        IF snapshot.recorded THEN Append(@, snapshot) ELSE @,
                    !.current_time = @ + 1,
                    !.pc = IF s.current_time + 1 >= TOTAL_SIMULATION_TIME
                           THEN "done" ELSE "step"] :
             snapshot \in {IF SnapshotDue(s.current_time)
                           THEN record_metrics(b.w, e, s.coalitions, s.current_time,
                                               found, rewards)
                           ELSE NoMetrics}})

\* step(t) after the formation game
SeededRest(s) ==
    Only({SeededStepEnd(s, b, IF b.ecp.present THEN reset_load(b.ecp) ELSE b.ecp,
                        s.blocks_found + b.found,
                        RAdd(s.total_rewards_distributed, b.reward)) :
             b \in UNION {UNION {UNION {
                 {SeededBlock(s, r, f)} :
                 f \in {SeededFinder(r.w, s.coalitions, c.state)}} :
                 r \in {PriceAndRequest(AggregateAll(c.w, s.coalitions, 1), s.ecp,
                                        s.coalitions, s.current_time)}} :
                 c \in {SeededMinersCollect(World(s.miners, s.coal),
                                            s.global_transaction_pool, s.runs.state, 1)}}})

\* sum(...) / len(self.metrics_history)
Mean(values) == RDiv(RSumSeq(values), FromInt(Len(values)))

RECURSIVE Least(_)
Least(values) ==
    IF Len(values) = 1 THEN values[1] ELSE RMin(Head(values), Least(Tail(values)))

RECURSIVE Greatest(_)
Greatest(values) ==
    IF Len(values) = 1 THEN values[1] ELSE RMax(Head(values), Greatest(Tail(values)))

\* SimulationEngine.get_final_metrics (without the nonce length and bandwidth)
get_final_metrics(s) ==
    LET h == s.runs.metrics_history
    IN  IF Len(h) = 0 THEN [empty |-> TRUE]
        ELSE [empty |-> FALSE,
              blocks_found |-> s.blocks_found,
              total_rewards |-> s.total_rewards_distributed,
              avg_ecp_utility |-> Mean([i \in DOMAIN h |-> h[i].ecp_utility]),
              avg_system_utility |-> Mean([i \in DOMAIN h |-> h[i].system_utility]),
              avg_coalition_size |-> Mean([i \in DOMAIN h |-> h[i].avg_coalition_size]),
              final_num_coalitions |-> Len(s.coalitions),
              metrics_history |-> h]

\* the statistics aggregate_results takes of one metric over the runs
\* (mean, min, max; the deviation and the interval are functions of the same list)
Statistics(values) ==
    [mean |-> Mean(values), min |-> Least(values), max |-> Greatest(values)]

\* SimulationEngine.aggregate_results (without the nonce length and bandwidth)
aggregate_results(results) ==
    IF Len(results) = 0 THEN [empty |-> TRUE]
    ELSE [empty |-> FALSE,
          num_runs |-> Len(results),
          ecp_utility |-> Statistics([i \in DOMAIN results |-> results[i].avg_ecp_utility]),
          system_utility |->
              Statistics([i \in DOMAIN results |-> results[i].avg_system_utility]),
          avg_coalition_size |->
              [mean |-> Mean([i \in DOMAIN results |-> results[i].avg_coalition_size])],
          blocks_found |-> Mean([i \in DOMAIN results |-> FromInt(results[i].blocks_found)]),
          total_rewards |-> Mean([i \in DOMAIN results |-> results[i].total_rewards])]

\* the end of single_run and the loop of run(): the result is appended
SeededRunEnd(s) ==
    [s EXCEPT !.runs.all_results = Append(@, get_final_metrics(s)),
              !.runs.run_num = @ + 1,
              !.pc = IF s.runs.run_num + 1 < MaxRuns THEN "new" ELSE "finished"]

\* the next step of execution s
SeededNext(s) ==
    CASE s.pc = "new" -> SeededInitialize(s)
      [] s.pc = "step" -> SeededBegin(s)
      [] s.pc = "ocf" -> IF s.ocf.order # <<>> THEN SeededTurn(s) ELSE SeededIterationEnd(s)
      [] s.pc = "rest" -> SeededRest(s)
      [] s.pc = "done" -> SeededRunEnd(s)
      [] OTHER -> s

(***************************************************************************)
(* SpecSeeded: two executions of run() under one configuration.  The first *)
(* lives in the variables of the engine, the second in twin; each starts   *)
(* from its own generator state (the entropy the interpreter gave it).     *)
(***************************************************************************)
\* the seeds a configuration can name: None (the default) or a number
Seeds == {None, 7, 42}

\* the states the generator can be in when the process starts
Entropy == {1, 2}

\* the first execution, as a record
Execution ==
    [miners |-> miners, coal |-> coal, coalitions |-> coalitions, ecp |-> ecp,
     config |-> config, pc |-> pc, current_time |-> current_time, ocf |-> ocf,
     blocks_found |-> blocks_found,
     total_rewards_distributed |-> total_rewards_distributed, rounds |-> rounds,
     current_metrics |-> current_metrics,
     global_transaction_pool |-> global_transaction_pool, runs |-> runs]

\* SimulationEngine(scenario_config) followed by run(num_runs = MaxRuns), before
\* the first single_run
InitSeeded ==
    \E scenario \in Scenarios, seed \in Seeds, a \in Entropy, b \in Entropy :
        /\ miners = [m \in Miners |-> NewMiner(1)]
        /\ coal = [h \in Handles |-> NoCoalition]
        /\ coalitions = <<>>
        /\ ecp = NoECP
        /\ config = scenario
        /\ pc = "new"
        /\ current_time = 0
        /\ ocf = NoOcf
        /\ blocks_found = 0
        /\ total_rewards_distributed = Zero
        /\ rounds = 0
        /\ lastOp = [op |-> "run"]
        /\ nops = 0
        /\ current_metrics = NoMetrics
        /\ global_transaction_pool = {}
        /\ runs = [NoRuns EXCEPT !.seed = seed, !.state = a]
        /\ included = {}
        /\ sweep = NoSweep
        /\ twin = [present |-> TRUE,
                   s |-> [miners |-> [m \in Miners |-> NewMiner(1)],
                          coal |-> [h \in Handles |-> NoCoalition],
                          coalitions |-> <<>>, ecp |-> NoECP, config |-> scenario,
                          pc |-> "new", current_time |-> 0, ocf |-> NoOcf,
                          blocks_found |-> 0, total_rewards_distributed |-> Zero,
                          rounds |-> 0, current_metrics |-> NoMetrics,
                          global_transaction_pool |-> {},
                          runs |-> [NoRuns EXCEPT !.seed = seed, !.state = b]]]

\* execution a becomes the state of the first execution
InstallOne(a) ==
    /\ miners' = a.miners
    /\ coal' = a.coal
    /\ coalitions' = a.coalitions
    /\ ecp' = a.ecp
    /\ pc' = a.pc
    /\ current_time' = a.current_time
    /\ ocf' = a.ocf
    /\ blocks_found' = a.blocks_found
    /\ total_rewards_distributed' = a.total_rewards_distributed
    /\ rounds' = a.rounds
    /\ current_metrics' = a.current_metrics
    /\ global_transaction_pool' = a.global_transaction_pool
    /\ runs' = a.runs
    /\ lastOp' = [op |-> pc]
    /\ UNCHANGED <<config, nops, sweep, included>>

\* the same for the pair: b becomes the state of the second execution
Install(a, b) ==
    /\ InstallOne(a)
    /\ twin' = [twin EXCEPT !.s = b]

\* single_run: initialize(); the second execution takes the step its own
\* position calls for
RunInitialize ==
    /\ pc = "new"
    /\ \E a \in {SeededInitialize(Execution)}, b \in {SeededNext(twin.s)} : Install(a, b)

\* step(t), up to the formation game
RunStepBegin ==
    /\ pc = "step"
    /\ \E a \in {SeededBegin(Execution)}, b \in {SeededNext(twin.s)} : Install(a, b)

\* a turn of the formation game
RunTurn ==
    /\ pc = "ocf"
    /\ ocf.order # <<>>
    /\ \E a \in {SeededTurn(Execution)}, b \in {SeededNext(twin.s)} : Install(a, b)

\* the end of an iteration of the formation game
RunIterationEnd ==
    /\ pc = "ocf"
    /\ ocf.order = <<>>
    /\ \E a \in {SeededIterationEnd(Execution)}, b \in {SeededNext(twin.s)} : Install(a, b)

\* the rest of step(t)
RunStepRest ==
    /\ pc = "rest"
    /\ \E a \in {SeededRest(Execution)}, b \in {SeededNext(twin.s)} : Install(a, b)

\* get_final_metrics; run() appends the result
RunEnd ==
    /\ pc = "done"
    /\ \E a \in {SeededRunEnd(Execution)}, b \in {SeededNext(twin.s)} : Install(a, b)

NextSeeded ==
    RunInitialize \/ RunStepBegin \/ RunTurn \/ RunIterationEnd \/ RunStepRest \/ RunEnd

SpecSeeded == InitSeeded /\ [][NextSeeded]_vars

(***************************************************************************)
(* SpecSweep: simulation.sweeps._run_sweep.  For each value of the range an *)
(* engine is built on a copy of the scenario configuration with the swept  *)
(* parameter set, run(MaxRuns) is executed, and the means of its aggregate *)
(* are stored; a run that raises is caught by the sweep and skipped.       *)
(***************************************************************************)
\* the parameters of sweep_ecp_price, sweep_num_miners,
\* sweep_transactions_per_block and sweep_block_reward
SweptParameters ==
    {"ECP_INITIAL_PRICE", "N_MINERS", "TRANSACTIONS_PER_BLOCK_I", "BLOCK_REWARD_B"}

\* the ranges swept, none of them in ascending order
SweepValues(param_name) ==
    CASE param_name = "ECP_INITIAL_PRICE" -> <<300, 100, 250>>
      [] param_name = "N_MINERS" -> <<3, 1, 4>>
      [] param_name = "TRANSACTIONS_PER_BLOCK_I" -> <<3, 5, 2>>
      [] param_name = "BLOCK_REWARD_B" -> <<5000, 2000, 3000>>

ParamRange(param_name) ==
    SubSeq(SweepValues(param_name) \o SweepValues(param_name), 1, MaxSweep)

\* "temp_config = copy.deepcopy(base_config); temp_config[param_name] = value"
TempConfig(base_config, param_name, value) == (param_name :> value) @@ base_config

\* "all_results = {param_name: []}"; the metric lists appear with their first entry
NoResults == [params |-> <<>>, metrics |-> [key \in {} |-> <<>>]]

\* the value stored in front of the values stored before it
StoreValueInFront(all_results, value) ==
    [all_results EXCEPT !.params = <<value>> \o @]

\* "all_results[param_name].append(value)"
StoreValue(all_results, value) ==
    [all_results EXCEPT !.params = Append(@, value)]

\* the entries of an aggregate that are statistics with a mean:
\* "isinstance(stats, dict) and 'mean' in stats"
ReportedKeys(results) ==
    IF results.empty THEN {}
    ELSE {"ecp_utility", "system_utility", "avg_coalition_size"}

\* "for key, stats in results.items(): ... all_results[key].append(stats['mean'])"
StoreMeans(all_results, results) ==
    [all_results EXCEPT !.metrics =
        [key \in DOMAIN @ \cup ReportedKeys(results) |->
            IF key \in ReportedKeys(results)
            THEN Append(IF key \in DOMAIN @ THEN @[key] ELSE <<>>, results[key].mean)
            ELSE @[key]]]

\* the timesteps at which a step of a run can raise an error
FaultTimes == {0, WARMUP_PERIOD}

\* _run_sweep(scenario_name, param_name, param_range, MaxRuns), before its loop
InitSweep ==
    \E scenario \in Scenarios, param_name \in SweptParameters, a \in Entropy :
        /\ miners = [m \in Miners |-> NewMiner(1)]
        /\ coal = [h \in Handles |-> NoCoalition]
        /\ coalitions = <<>>
        /\ ecp = NoECP
        /\ config = scenario
        /\ pc = "idle"
        /\ current_time = 0
        /\ ocf = NoOcf
        /\ blocks_found = 0
        /\ total_rewards_distributed = Zero
        /\ rounds = 0
        /\ lastOp = [op |-> "_run_sweep"]
        /\ nops = 0
        /\ current_metrics = NoMetrics
        /\ global_transaction_pool = {}
        /\ runs = [NoRuns EXCEPT !.state = a]
        /\ twin = NoTwin
        /\ included = {}
        /\ sweep = [present |-> TRUE, base_config |-> scenario, param_name |-> param_name,
                    param_range |-> ParamRange(param_name), index |-> 1,
                    all_results |-> NoResults, done |-> <<>>]

\* "engine = SimulationEngine(temp_config)" and the call of engine.run
SweepBegin ==
    /\ sweep.present
    /\ pc = "idle"
    /\ sweep.index <= Len(sweep.param_range)
    /\ config' = TempConfig(sweep.base_config, sweep.param_name,
                            sweep.param_range[sweep.index])
    /\ miners' = [m \in Miners |-> NewMiner(1)]
    /\ coal' = [h \in Handles |-> NoCoalition]
    /\ coalitions' = <<>>
    /\ ecp' = NoECP
    /\ pc' = "new"
    /\ current_time' = 0
    /\ ocf' = NoOcf
    /\ blocks_found' = 0
    /\ total_rewards_distributed' = Zero
    /\ rounds' = 0
    /\ current_metrics' = NoMetrics
    /\ global_transaction_pool' = {}
    /\ runs' = [runs EXCEPT !.run_num = 0, !.metrics_history = <<>>, !.all_results = <<>>]
    /\ lastOp' = [op |-> "engine"]
    /\ UNCHANGED <<nops, twin, sweep, included>>

\* a step of engine.run
SweepRun ==
    /\ sweep.present
    /\ pc \in {"new", "step", "ocf", "rest", "done"}
    /\ \E a \in {SeededNext(Execution)} : InstallOne(a)
    /\ UNCHANGED twin

\* a step of a run raises: neither single_run nor run() catches anything, so
\* the error leaves engine.run and is caught by the sweep ("except Exception:
\* ... continue")
RunRaises ==
    /\ sweep.present
    /\ pc = "rest"
    /\ current_time \in FaultTimes
    /\ pc' = "idle"
    /\ sweep' = [sweep EXCEPT
                    !.index = @ + 1,
                    !.done = Append(@, [value |-> sweep.param_range[sweep.index],
                                        raised |-> TRUE, run_num |-> runs.run_num,
                                        results |-> [empty |-> TRUE]])]
    /\ lastOp' = [op |-> "raise", run_num |-> runs.run_num]
    /\ UNCHANGED <<miners, coal, coalitions, ecp, config, runs, twin, included, current_time, ocf,
                   blocks_found, total_rewards_distributed, rounds, nops, current_metrics,
                   global_transaction_pool>>

\* engine.run has returned its aggregate: the value and the means are stored
SweepStore ==
    /\ sweep.present
    /\ pc = "finished"
    /\ \E results \in {aggregate_results(runs.all_results)} :
           sweep' = [sweep EXCEPT
                        !.index = @ + 1,
                        !.all_results =
                            StoreMeans(StoreValue(@, sweep.param_range[sweep.index]), results),
                        !.done = Append(@, [value |-> sweep.param_range[sweep.index],
                                            raised |-> FALSE, run_num |-> runs.run_num,
                                            results |-> results])]
    /\ pc' = "idle"
    /\ lastOp' = [op |-> "store"]
    /\ UNCHANGED <<miners, coal, coalitions, ecp, config, runs, twin, included, current_time, ocf,
                   blocks_found, total_rewards_distributed, rounds, nops, current_metrics,
                   global_transaction_pool>>

\* "return all_results"
SweepReturn ==
    /\ sweep.present
    /\ pc = "idle"
    /\ sweep.index > Len(sweep.param_range)
    /\ pc' = "swept"
    /\ lastOp' = [op |-> "return"]
    /\ UNCHANGED <<miners, coal, coalitions, ecp, config, runs, twin, sweep, included, current_time, ocf,
                   blocks_found, total_rewards_distributed, rounds, nops, current_metrics,
                   global_transaction_pool>>

NextSweep == SweepBegin \/ SweepRun \/ RunRaises \/ SweepStore \/ SweepReturn

SpecSweep == InitSweep /\ [][NextSweep]_vars

(***************************************************************************)
(* SpecSnapshot: the provider's part of a timestep and the metrics snapshot *)
(* over coalitions a client has set up: the first coalition may have        *)
(* admitted a guest before its head began to work for it, so that           *)
(* coalitions can share members.                                            *)
(***************************************************************************)
RECURSIVE JoinHeads(_, _, _)
\* "head_miner.join_coalition(coalition)" for the coalitions from the i-th on
JoinHeads(w, heads, i) ==
    IF i > Len(heads) THEN w
    ELSE JoinHeads(join_coalition(w, heads[i], i).w, heads, i + 1)

InitSnapshot ==
    \E hashrates \in [Miners -> 1..MaxHash], heads \in [ApiHandles -> Miners],
       guest \in Miners \cup {None} :
        LET w0 == World([m \in Miners |-> NewMiner(hashrates[m])],
                        [h \in Handles |->
                            IF h \in ApiHandles THEN NewCoalition(h - 1, heads[h])
                            ELSE NoCoalition])
            w1 == IF guest = None THEN w0 ELSE add_member(w0, 1, guest).w
            w2 == JoinHeads(w1, [i \in 1..ApiCoalitions |-> heads[i]], 1)
        IN  /\ global_transaction_pool = {}
            /\ miners = w2.miners
            /\ coal = w2.coal
            /\ coalitions = [i \in 1..ApiCoalitions |-> i]
            /\ ecp = NewECP
            /\ config = ApiScenario
            /\ runs = NoRuns
            /\ twin = NoTwin
            /\ included = {}
            /\ sweep = NoSweep
            /\ pc = "api"
            /\ current_time = WARMUP_PERIOD
            /\ ocf = NoOcf
            /\ blocks_found = 0
            /\ total_rewards_distributed = Zero
            /\ rounds = 0
            /\ lastOp = [op |-> "init"]
            /\ nops = 0
            /\ current_metrics = NoMetrics

\* ECP.update_membership_graph(self.coalitions)
UpdateMembershipGraph ==
    /\ ApiFrame
    /\ ecp' = update_membership_graph(W, ecp, coalitions)
    /\ lastOp' = [op |-> "update_membership_graph"]
    /\ UNCHANGED <<miners, coal, coalitions, ocf>>

\* SimulationEngine.coalitions_request_compute
CoalitionsRequestCompute ==
    /\ ApiFrame
    /\ \E r \in {coalitions_request_compute(W, ecp, coalitions)} :
           /\ miners' = r.w.miners
           /\ coal' = r.w.coal
           /\ ecp' = r.ecp
    /\ lastOp' = [op |-> "coalitions_request_compute"]
    /\ UNCHANGED <<coalitions, ocf>>

\* "if self.ecp: self.ecp.reset_load()" at the end of a timestep
EndOfStepReset ==
    /\ ApiFrame
    /\ ecp' = reset_load(ecp)
    /\ lastOp' = [op |-> "reset_load"]
    /\ UNCHANGED <<miners, coal, coalitions, ocf>>

\* SimulationEngine.record_metrics(time), during warm-up or after it
RecordMetrics(is_warmup) ==
    /\ pc = "api"
    /\ nops < MaxOps
    /\ nops' = nops + 1
    /\ current_metrics' =
           IF is_warmup THEN current_metrics
           ELSE record_metrics(W, ecp, coalitions, current_time, blocks_found,
                               total_rewards_distributed)
    /\ lastOp' = [op |-> "record_metrics", is_warmup |-> is_warmup]
    /\ UNCHANGED <<miners, coal, coalitions, ecp, config, runs, twin, sweep, included, pc, current_time, ocf,
                   blocks_found, total_rewards_distributed, rounds,
                   global_transaction_pool>>

NextSnapshot ==
    \/ UpdateMembershipGraph
    \/ CoalitionsRequestCompute
    \/ EndOfStepReset
    \/ \E is_warmup \in BOOLEAN : RecordMetrics(is_warmup)

SpecSnapshot == InitSnapshot /\ [][NextSnapshot]_vars

(***************************************************************************)
(* SpecDiscovery: block discovery over coalitions a client has set up, of  *)
(* which the engine's list holds the first few: coalitions without members *)
(* or without work, with or without purchased compute.                     *)
(***************************************************************************)
InitDiscovery ==
    \E hashrates \in [Miners -> 1..MaxHash], heads \in [ApiHandles -> Miners \cup {None}],
       listed \in 0..ApiCoalitions :
        /\ global_transaction_pool = {}
        /\ miners = [m \in Miners |-> NewMiner(hashrates[m])]
        /\ coal = [h \in Handles |->
                      IF h \in ApiHandles THEN NewCoalition(h - 1, heads[h]) ELSE NoCoalition]
        /\ coalitions = [i \in 1..listed |-> i]
        /\ ecp = NewECP
        /\ config = ApiScenario
        /\ runs = NoRuns
        /\ twin = NoTwin
        /\ included = {}
        /\ sweep = NoSweep
        /\ pc = "api"
        /\ current_time = 0
        /\ ocf = NoOcf
        /\ blocks_found = 0
        /\ total_rewards_distributed = Zero
        /\ rounds = 0
        /\ lastOp = [op |-> "init"]
        /\ nops = 0
        /\ current_metrics = NoMetrics

\* SimulationEngine.attempt_block_discovery, handle_block_found included
AttemptBlockDiscovery ==
    /\ pc = "api"
    /\ nops < MaxOps
    /\ nops' = nops + 1
    /\ \E winner \in attempt_block_discovery(W, coalitions) :
           IF winner = None
           THEN /\ UNCHANGED <<miners, coal, blocks_found, total_rewards_distributed,
                               global_transaction_pool>>
                /\ lastOp' = [op |-> "attempt_block_discovery", winner |-> None]
           ELSE \E theft \in TheftOutcomes :
                \E b \in {handle_block_found(W, ecp, winner, global_transaction_pool, theft)} :
                    /\ miners' = b.w.miners
                    /\ coal' = b.w.coal
                    /\ global_transaction_pool' = b.global_transaction_pool
                    /\ total_rewards_distributed' =
                           RAdd(total_rewards_distributed, b.total_reward)
                    /\ blocks_found' = blocks_found + 1
                    /\ lastOp' = [op |-> "attempt_block_discovery", winner |-> winner]
    /\ UNCHANGED <<coalitions, ecp, config, runs, twin, sweep, included, pc, current_time, ocf, rounds,
                   current_metrics>>

NextDiscovery ==
    \/ \E h \in ApiHandles, m \in Miners : JoinCoalition(m, h)
    \/ \E h \in ApiHandles, nonce_range \in ApiAmounts : RequestEcpCompute(h, nonce_range)
    \/ AttemptBlockDiscovery

SpecDiscovery == InitDiscovery /\ [][NextDiscovery]_vars

(***************************************************************************)
(* SpecEcp: a client calling the operations of the provider, in any order, *)
(* with the coalitions of a freshly initialized world.                     *)
(***************************************************************************)
\* the price the provider starts from (prices are a public attribute)
StartPrices == {<<-1, 1>>, <<0, 1>>, <<200, 1>>, <<450, 1>>, <<480, 1>>, <<500, 1>>,
                <<600, 1>>}

\* requested amounts: nothing, one H/s, 4 GH/s, 7 GH/s
EcpAmounts == {QZero, QHs(One), QHu(<<40, 1>>), QHu(<<70, 1>>)}

\* the lists of coalitions a client can pass: no coalition twice
CoalitionLists ==
    {s \in UNION {[1..n -> ApiHandles] : n \in 0..ApiCoalitions} :
        \A i, j \in DOMAIN s : s[i] = s[j] => i = j}

InitEcp ==
    \E price \in StartPrices :
        LET w0 == World([m \in Miners |-> NewMiner(((m - 1) % MaxHash) + 1)],
                        [h \in Handles |-> NoCoalition])
            w1 == CreateAndJoin(w0, [i \in 1..ApiCoalitions |-> ((i - 1) % NumMiners) + 1], 1)
        IN  /\ global_transaction_pool = {}
            /\ miners = w1.miners
            /\ coal = w1.coal
            /\ coalitions = [i \in 1..ApiCoalitions |-> i]
            /\ ecp = [NewECP EXCEPT !.price_per_hash = price]
            /\ config = ApiScenario
            /\ runs = NoRuns
            /\ twin = NoTwin
            /\ included = {}
            /\ sweep = NoSweep
            /\ pc = "ecp"
            /\ current_time = 0
            /\ ocf = NoOcf
            /\ blocks_found = 0
            /\ total_rewards_distributed = Zero
            /\ rounds = 0
            /\ lastOp = [op |-> "init"]
            /\ nops = 0
            /\ current_metrics = NoMetrics

EcpFrame ==
    /\ pc = "ecp"
    /\ nops < MaxEcpOps
    /\ nops' = nops + 1
    /\ UNCHANGED <<miners, coal, coalitions, config, runs, twin, sweep, included, pc, current_time, ocf, blocks_found,
                   total_rewards_distributed, rounds, current_metrics,
                   global_transaction_pool>>

AllocateCompute(h, nonce_range) ==
    /\ EcpFrame
    /\ \E r \in {allocate_compute(ecp, h, nonce_range)} :
           /\ ecp' = r.ecp
           /\ lastOp' = [op |-> "allocate_compute", h |-> h, nonce_range |-> nonce_range,
                         allocated |-> r.allocated]

ResetLoad ==
    /\ EcpFrame
    /\ ecp' = reset_load(ecp)
    /\ lastOp' = [op |-> "reset_load"]

SetOptimalPrice(cl) ==
    /\ EcpFrame
    /\ ecp' = set_optimal_price(W, ecp, cl)
    /\ lastOp' = [op |-> "set_optimal_price", coalitions |-> cl,
                  from |-> ecp.price_per_hash]

NextEcp ==
    \/ \E h \in ApiHandles, nonce_range \in EcpAmounts : AllocateCompute(h, nonce_range)
    \/ ResetLoad
    \/ \E cl \in CoalitionLists : SetOptimalPrice(cl)

SpecEcp == InitEcp /\ [][NextEcp]_vars

(***************************************************************************)
(* Properties of the Miner / Coalition operations (SpecApi).               *)
(***************************************************************************)
\* the fractions a miner gives to the coalitions of its list
Fractions(m) ==
    [i \in DOMAIN miners[m].coalitions |-> get_allocation(W, m, miners[m].coalitions[i])]

\* C1: after any sequence of join_coalition / leave_coalition calls and moves of
\* the formation game, a miner's time-allocation fractions sum to exactly 1 if
\* it has at least one membership, and its allocation mapping is empty if it
\* has none.
AllocationSumsToOne ==
    \A m \in Miners :
        IF Len(miners[m].coalitions) >= 1
        THEN /\ RSumSeq(Fractions(m)) = One
             /\ DOMAIN miners[m].allocation =
                    {coal[h].coalition_id : h \in Range(miners[m].coalitions)}
        ELSE DOMAIN miners[m].allocation = {}

\* a miner has left one of two coalitions and keeps the other
LeftOneOfTwo ==
    /\ lastOp.op = "leave_coalition"
    /\ lastOp.ok
    /\ Len(miners[lastOp.m].coalitions) >= 1

\* the amount a step credits to miner m through receive_reward
Credited(m) == RSub(miners'[m].total_earnings, miners[m].total_earnings)

\* block reward (fees included) minus price x compute purchased, after the
\* trust / theft discount, for the coalition and the reward of the call
NetOfCall(h, block_reward, theft) ==
    Discounted(RSub(block_reward,
                    QScale(coal[h].ecp_compute_purchased, ecp.price_per_hash)), theft)

\* C2: a call of distribute_rewards on a coalition with total member work > 0
\* and net reward > 0 credits amounts that sum to the net reward, each of them
\* >= 0.
RewardsSumToNet ==
    [][lastOp'.op = "distribute_rewards" =>
          LET net == NetOfCall(lastOp'.h, lastOp'.block_reward, lastOp'.theft)
          IN  (RLt(Zero, get_total_work(W, lastOp'.h)) /\ RLt(Zero, net)) =>
                  /\ lastOp'.ok
                  /\ RSumSeq([m \in Miners |-> Credited(m)]) = net
                  /\ \A m \in Miners : RLe(Zero, Credited(m))
                  /\ \A m \in Miners :
                         RLt(Zero, Credited(m)) => m \in Range(coal[lastOp'.h].members)
    ]_vars

\* a block has been distributed between two members, each credited
TwoMembersCredited ==
    /\ lastOp.op = "distribute_rewards"
    /\ lastOp.ok
    /\ Len(coal[lastOp.h].members) >= 2
    /\ \A m \in Range(coal[lastOp.h].members) : RLt(Zero, miners[m].total_earnings)

\* a member's share-based utility in coalition h now, and projected for the
\* moment new_miner has been admitted
CurrentShareUtility(h, member) ==
    ShareUtility(get_work_contribution(W, member, h), get_total_work(W, h))

ProjectedShareUtility(h, member, new_miner) ==
    ShareUtility(get_work_contribution(W, member, h),
                 RAdd(get_total_work(W, h), get_potential_work_contribution(W, new_miner, h)))

\* projected utility >= tolerance x current utility, within the epsilon
NoMemberHurt(h, new_miner) ==
    \A member \in Range(coal[h].members) :
        ~ExceedsBy(RMul(Def4Tolerance, CurrentShareUtility(h, member)),
                   ProjectedShareUtility(h, member, new_miner), Def4EpsInv)

\* a step asks coalition h to admit miner m: add_member, or an executed MERGE
AsksAdmission(h, m) ==
    \/ lastOp'.op = "add_member" /\ lastOp'.h = h /\ lastOp'.m = m
    \/ /\ lastOp'.op = "turn" /\ lastOp'.m = m
       /\ lastOp'.best.strategy = "MERGE" /\ lastOp'.best.target = h

\* C3: when a miner is admitted into a non-empty coalition (add_member succeeds
\* or the game executes MERGE), every existing member's projected utility is at
\* least tolerance x its current share-based utility, within the epsilon; if
\* that fails for a member the admission is refused and the member list is
\* unchanged.
AdmissionHurtsNoMember ==
    [][\A h \in Handles, m \in Miners :
          (AsksAdmission(h, m) /\ Len(coal[h].members) > 0) =>
              /\ coal'[h].members # coal[h].members =>
                     /\ coal'[h].members = Append(coal[h].members, m)
                     /\ NoMemberHurt(h, m)
              /\ ~NoMemberHurt(h, m) => coal'[h].members = coal[h].members
    ]_vars

\* add_member has admitted a second member
AdmittedIntoNonEmpty ==
    /\ lastOp.op = "add_member"
    /\ lastOp.ok
    /\ Len(coal[lastOp.h].members) >= 2

(***************************************************************************)
(* Properties of a miner's turn in the formation game.                     *)
(***************************************************************************)
\* the strategies miner m evaluates in the current state
TurnCandidates(m) == Candidates(W, coalitions, m, config.max_coalitions)

\* what a turn that executes candidate best does to miner m's memberships (a
\* MERGE changes nothing when the target's add_member answers False)
Executed(m, best) ==
    IF best.strategy = "STAY" THEN UNCHANGED <<miners, coal, coalitions>>
    ELSE IF best.strategy = "MERGE"
    THEN IF lastOp'.changes_made
         THEN miners'[m].coalitions = Append(miners[m].coalitions, best.target)
         ELSE UNCHANGED <<miners, coal, coalitions>>
    ELSE IF best.strategy = "SPLIT"
    THEN /\ Len(coalitions') = Len(coalitions) + 1
         /\ Len(miners'[m].coalitions) = Len(miners[m].coalitions) + 1
    ELSE /\ Len(miners'[m].coalitions) = Len(miners[m].coalitions) - 1
         /\ \A i \in DOMAIN miners'[m].coalitions :
                ~CoalEq(W, miners'[m].coalitions[i], best.target)

\* C8, as stated: the strategy a miner executes in its turn is the candidate of
\* greatest projected utility among STAY, every admissible MERGE target, SPLIT
\* and every LEAVE option.
ExecutesGreatestUtility ==
    [][lastOp'.op = "turn" =>
          \A cands \in {TurnCandidates(lastOp'.m)} :
              /\ \E k \in DOMAIN cands : cands[k] = lastOp'.best
              /\ \A i \in DOMAIN cands : RLe(cands[i].utility, lastOp'.best.utility)
              /\ Executed(lastOp'.m, lastOp'.best)
    ]_vars

\* C8, amended: the strategy a miner executes in its turn is one of the
\* candidates STAY, admissible MERGE target, SPLIT, LEAVE option; no candidate's
\* projected utility is above the executed one's by more than the convergence
\* epsilon, and a strategy other than STAY is executed only if its projected
\* utility is above the miner's current utility by more than the epsilon.
ExecutesGreatestUpToEpsilon ==
    [][lastOp'.op = "turn" =>
          \A cands \in {TurnCandidates(lastOp'.m)} :
              /\ \E k \in DOMAIN cands : cands[k] = lastOp'.best
              /\ \A i \in DOMAIN cands :
                     ~ExceedsBy(cands[i].utility, lastOp'.best.utility, OcfEpsInv)
              /\ lastOp'.best.strategy # "STAY" =>
                     ExceedsBy(lastOp'.best.utility, get_total_utility(W, lastOp'.m),
                               OcfEpsInv)
              /\ Executed(lastOp'.m, lastOp'.best)
    ]_vars

\* a miner has stayed although a coalition it could merge into promised more
\* than its current utility, by less than the epsilon
StayedWithinEpsilon ==
    /\ lastOp.op = "turn"
    /\ lastOp.best.strategy = "STAY"
    /\ \E i \in DOMAIN TurnCandidates(lastOp.m) :
           /\ TurnCandidates(lastOp.m)[i].strategy = "MERGE"
           /\ RLt(lastOp.best.utility, TurnCandidates(lastOp.m)[i].utility)

\* a miner with positive utility has merged into a coalition that promised more
MergedForMore ==
    /\ lastOp.op = "turn"
    /\ lastOp.best.strategy = "MERGE"
    /\ lastOp.changes_made
    /\ RLt(Zero, miners[lastOp.m].current_utility)
    /\ RLt(miners[lastOp.m].current_utility, lastOp.best.utility)

\* C9: a turn leaves the miner's memberships unchanged (STAY) whenever no MERGE,
\* SPLIT or LEAVE candidate has projected utility above the miner's current
\* utility plus the convergence epsilon; of candidates that tie in projected
\* utility the one evaluated first (STAY, MERGE, SPLIT, LEAVE) is executed.
StaysUnlessBetter ==
    [][lastOp'.op = "turn" =>
          \A cands \in {TurnCandidates(lastOp'.m)},
             current \in {get_total_utility(W, lastOp'.m)} :
              /\ (\A i \in 2..Len(cands) :
                      ~ExceedsBy(cands[i].utility, current, OcfEpsInv)) =>
                     /\ lastOp'.best.strategy = "STAY"
                     /\ UNCHANGED <<miners, coal, coalitions>>
              /\ \E k \in DOMAIN cands :
                     /\ cands[k] = lastOp'.best
                     /\ \A j \in 1..(k - 1) : cands[j].utility # lastOp'.best.utility
              /\ Executed(lastOp'.m, lastOp'.best)
    ]_vars

\* of two MERGE targets promising the same utility the first of the list was
\* joined: the other one is still without work and without the miner
FirstOfTiedTargets ==
    /\ lastOp.op = "turn"
    /\ lastOp.best.strategy = "MERGE"
    /\ lastOp.changes_made
    /\ lastOp.best.utility = expected_rewards
    /\ \E i, j \in DOMAIN coalitions :
           /\ i < j
           /\ coalitions[i] = lastOp.best.target
           /\ ~InCoalitions(W, lastOp.m, coalitions[j])
           /\ get_total_work(W, coalitions[j]) = Zero

(***************************************************************************)
(* Properties of the provider's operations (SpecEcp).                      *)
(***************************************************************************)
\* C4, as stated: after any call of set_optimal_price, for any starting price
\* and any list of coalitions, the provider's price lies within
\* [ECP_PRICE_MIN, ECP_PRICE_MAX].
PriceWithinBand ==
    lastOp.op = "set_optimal_price" =>
        /\ RLe(ECP_PRICE_MIN, ecp.price_per_hash)
        /\ RLe(ecp.price_per_hash, ECP_PRICE_MAX)

QEq(a, b) == QSign(QSub(a, b)) = 0

\* C5: after any sequence of allocate_compute calls with non-negative amounts
\* and reset_load calls, 0 <= current_load <= total_capacity; each grant is the
\* smaller of the requested amount and the capacity remaining when the request
\* is submitted, and requests are served and recorded in submission order.
GrantsWithinCapacity ==
    /\ [](QLe(QZero, ecp.current_load) /\ QLe(ecp.current_load, ecp.total_capacity))
    /\ [][/\ lastOp'.op = "allocate_compute" =>
               \A remaining \in {QSub(ecp.total_capacity, ecp.current_load)} :
                   /\ QEq(lastOp'.allocated,
                          IF QLt(remaining, lastOp'.nonce_range)
                          THEN remaining ELSE lastOp'.nonce_range)
                   /\ QEq(ecp'.current_load, QAdd(ecp.current_load, lastOp'.allocated))
                   /\ ecp'.compute_requests =
                          Append(ecp.compute_requests,
                                 [coalition |-> lastOp'.h,
                                  nonce_range |-> lastOp'.nonce_range,
                                  allocated |-> lastOp'.allocated])
          /\ lastOp'.op = "reset_load" =>
                 ecp'.current_load = QZero /\ ecp'.compute_requests = <<>>
       ]_vars

\* a request has been granted in part: less than asked, all that remained
PartialGrant ==
    /\ lastOp.op = "allocate_compute"
    /\ QLt(QZero, lastOp.allocated)
    /\ QLt(lastOp.allocated, lastOp.nonce_range)
    /\ QEq(ecp.current_load, ecp.total_capacity)

(***************************************************************************)
(* Properties of a run of the engine (Spec).                               *)
(***************************************************************************)
\* C6, as stated: in a cooperative scenario, once the first formation round has
\* completed every miner belongs to at least one coalition.
EveryMinerJoins ==
    (config.max_coalitions >= 1 /\ rounds >= 1) =>
        \A m \in Miners : Len(miners[m].coalitions) >= 1

\* a round that has not stopped can take a step: some miner still to play can
\* take its turn, or the iteration can be closed
RoundCanStep ==
    ocf.remaining # {} =>
        \E m \in ocf.remaining :
            TurnCandidates(m) # <<>> /\
            (BestStrategy(TurnCandidates(m)).strategy = "SPLIT" => FreshHandles(W) # {})

\* C7: every formation round terminates.  Each step of a round either is a
\* turn of a miner still to play in the iteration, or closes an iteration that
\* made a change and opens the next one, below OCF_MAX_ITERATIONS, or stops the
\* round; the round stops at the end of the first iteration without a change,
\* or of iteration OCF_MAX_ITERATIONS, as an ordinary step that keeps the
\* membership state reached; and a round that has not stopped can take a step.
RoundsTerminate ==
    /\ [](pc = "ocf" => ocf.iteration < OCF_MAX_ITERATIONS /\ RoundCanStep)
    /\ [][pc = "ocf" =>
             \/ /\ pc' = "ocf"
                /\ ocf.remaining # {}
                /\ ocf'.iteration = ocf.iteration
                /\ ocf'.remaining \subseteq ocf.remaining
                /\ ocf'.remaining # ocf.remaining
             \/ /\ pc' = "ocf"
                /\ ocf.remaining = {}
                /\ ocf.changes_made
                /\ ocf'.iteration = ocf.iteration + 1
                /\ ocf'.iteration < OCF_MAX_ITERATIONS
                /\ UNCHANGED <<miners, coal, coalitions>>
             \/ /\ pc' = "rest"
                /\ ocf.remaining = {}
                /\ ~ocf.changes_made \/ ocf.iteration + 1 = OCF_MAX_ITERATIONS
                /\ rounds' = rounds + 1
                /\ lastOp'.op = "round_end"
                /\ UNCHANGED <<miners, coal, coalitions>>
       ]_vars

\* a round has stopped after its first iteration, which made no change
RoundStoppedWhenQuiet ==
    /\ lastOp.op = "round_end"
    /\ lastOp.iterations = 1
    /\ ~ocf.changes_made
    /\ pc = "rest"

\* C10: in a cooperative scenario no miner holds more than max_coalitions
\* memberships in any state of a run.
MembershipsWithinCap ==
    config.max_coalitions >= 1 =>
        \A m \in Miners : Len(miners[m].coalitions) <= config.max_coalitions

\* with max_coalitions = 1 a miner at the cap has played its turn of a round
AtCapAfterTurn ==
    /\ config.max_coalitions = 1
    /\ lastOp.op = "turn"
    /\ Len(miners[lastOp.m].coalitions) = config.max_coalitions

\* C11: with max_coalitions = 0 the formation game is never executed at any
\* timestep (no round is opened, no turn is taken, no round is completed), and
\* in every state of the run each coalition has exactly one member.
NonCooperativeStaysSolo ==
    config.max_coalitions = 0 =>
        /\ pc # "ocf"
        /\ lastOp.op \notin {"turn", "iteration_end", "round_end"}
        /\ rounds = 0
        /\ ocf = NoOcf
        /\ \A i \in DOMAIN coalitions : Len(coal[coalitions[i]].members) = 1

\* a non-cooperative run has passed a timestep at which the game is due in the
\* cooperative scenarios, and a block has been found
SoloPastFormationTime ==
    /\ config.max_coalitions = 0
    /\ lastOp.op = "step_end"
    /\ lastOp.time = OCF_PERIOD
    /\ blocks_found >= 1

\* C12: with ecp_enabled = false no provider exists during the run, every
\* coalition's purchased compute stays 0, and every metrics snapshot reports
\* provider utility 0, total compute demand 0 and provider price 0.
NoProviderNoCompute ==
    ~config.ecp_enabled =>
        /\ ~ecp.present
        /\ \A h \in Handles : coal[h].ecp_compute_purchased = QZero
        /\ current_metrics.recorded =>
               /\ current_metrics.ecp_utility = Zero
               /\ current_metrics.total_nonce_length = QZero
               /\ current_metrics.ecp_price = Zero

\* a snapshot has been recorded in a run without provider, after a block
SnapshotWithoutProvider ==
    /\ ~config.ecp_enabled
    /\ current_metrics.recorded
    /\ current_metrics.blocks_found >= 1

\* a step has handled a block found by coalition lastOp'.winner
BlockHandled == lastOp'.op = "step_end" /\ lastOp'.winner # None

\* C14, as stated: for each member of the winning coalition the utility recorded
\* for a found block equals the reward amount credited to that member for the
\* block (its work share x the block's net reward).
UtilityEqualsCredit ==
    [][BlockHandled =>
          \A m \in Range(coal[lastOp'.winner].members) :
              miners'[m].current_utility = Credited(m)
    ]_vars

\* the block's total reward (block reward plus fees) and its net reward, as
\* distribute_rewards computes it from the price and the compute purchased
BlockReward == RSub(total_rewards_distributed', total_rewards_distributed)

BlockNetReward ==
    Discounted(RSub(BlockReward,
                    QScale(coal'[lastOp'.winner].ecp_compute_purchased,
                           IF ecp'.present THEN ecp'.price_per_hash ELSE Zero)),
               FALSE)

\* the utility distribute_rewards passes to update_utility for member m
BlockUtility(m) ==
    calculate_miner_utility(World(miners', coal'), m, lastOp'.winner, BlockNetReward,
                            IF ecp'.present THEN ecp'.price_per_hash ELSE Zero,
                            coal'[lastOp'.winner].ecp_compute_purchased)

\* C15, as stated: after a block is distributed, a member's running utility
\* equals its running utility before the block plus its utility from that
\* block.
UtilityAccumulates ==
    [][BlockHandled =>
          \A m \in Range(coal[lastOp'.winner].members) :
              miners'[m].current_utility = RAdd(miners[m].current_utility, BlockUtility(m))
    ]_vars

\* C16: after a block is handled, none of the transactions selected for it is
\* left in the winning coalition's pool, in the global pool, or with any miner.
SelectedTransactionsRemoved ==
    (lastOp.op = "step_end" /\ lastOp.winner # None) =>
        \A i \in DOMAIN lastOp.selected_transactions :
            LET tx_id == lastOp.selected_transactions[i].tx_id
            IN  /\ tx_id \notin TxIds(Range(coal[lastOp.winner].transaction_pool))
                /\ tx_id \notin TxIds(global_transaction_pool)
                /\ \A m \in Miners : tx_id \notin TxIds(miners[m].transactions)

\* the part of C16 about the global pool and the miners alone
SelectedLeavePoolAndMiners ==
    (lastOp.op = "step_end" /\ lastOp.winner # None) =>
        \A i \in DOMAIN lastOp.selected_transactions :
            LET tx_id == lastOp.selected_transactions[i].tx_id
            IN  /\ tx_id \notin TxIds(global_transaction_pool)
                /\ \A m \in Miners : tx_id \notin TxIds(miners[m].transactions)

BlockOfFullSize ==
    /\ lastOp.op = "step_end" /\ lastOp.winner # None
    /\ Len(lastOp.selected_transactions) = TRANSACTIONS_PER_BLOCK_I

\* C17: a coalition whose effective hashrate is zero is never the winner of a
\* block, and when the engine has no coalitions or all of them have zero
\* effective hashrate the attempt finds no block and changes nothing.
ZeroHashrateNeverWins ==
    [][lastOp'.op = "attempt_block_discovery" /\ nops' = nops + 1 =>
          /\ lastOp'.winner # None =>
                 /\ lastOp'.winner \in Range(coalitions)
                 /\ QLt(QZero, get_effective_hashrate(W, lastOp'.winner))
          /\ (\A i \in DOMAIN coalitions :
                  get_effective_hashrate(W, coalitions[i]) = QZero) =>
                 /\ lastOp'.winner = None
                 /\ UNCHANGED <<miners, coal, blocks_found, total_rewards_distributed,
                                global_transaction_pool>>]_vars

\* a block was found while one coalition of the list had no hashrate at all
WonBesideZeroHashrate ==
    /\ lastOp.op = "attempt_block_discovery"
    /\ lastOp.winner # None
    /\ blocks_found = 1
    /\ \E i \in DOMAIN coalitions :
           /\ coalitions[i] # lastOp.winner
           /\ get_effective_hashrate(W, coalitions[i]) = QZero

\* an attempt over a list of coalitions that all have zero hashrate
AttemptWithoutHashrate ==
    /\ lastOp.op = "attempt_block_discovery"
    /\ Len(coalitions) > 0
    /\ blocks_found = 0
    /\ \A i \in DOMAIN coalitions : get_effective_hashrate(W, coalitions[i]) = QZero

\* C18: distribute_rewards on a coalition whose members' total work is zero
\* (an empty coalition included) returns without an error and leaves every
\* miner's earnings and utility and the coalition's cumulative rewards, cost
\* paid and utility as they were.
ZeroWorkDistributionIsNoOp ==
    [][(lastOp'.op = "distribute_rewards" /\ nops' = nops + 1
           /\ get_total_work(W, lastOp'.h) = Zero) =>
          /\ \A m \in Miners :
                 /\ miners'[m].total_earnings = miners[m].total_earnings
                 /\ miners'[m].current_utility = miners[m].current_utility
          /\ coal'[lastOp'.h].total_rewards = coal[lastOp'.h].total_rewards
          /\ coal'[lastOp'.h].ecp_cost_paid = coal[lastOp'.h].ecp_cost_paid
          /\ coal'[lastOp'.h].current_utility = coal[lastOp'.h].current_utility
          /\ miners' = miners /\ coal' = coal]_vars

\* distribute_rewards was called on an empty coalition
DistributedToEmpty ==
    /\ lastOp.op = "distribute_rewards"
    /\ coal[lastOp.h].members = <<>>
    /\ ~lastOp.ok

\* distribute_rewards was called on a coalition whose members do no work for it
DistributedWithoutWork ==
    /\ lastOp.op = "distribute_rewards"
    /\ coal[lastOp.h].members # <<>>
    /\ get_total_work(W, lastOp.h) = Zero
    /\ \E m \in Miners : miners[m].total_earnings # Zero

\* C19: unmet demand is not carried over: at the start of every timestep the
\* provider's current load is 0 and its list of outstanding requests is empty.
NoDemandCarriedOver ==
    (pc = "step" /\ ecp.present) =>
        /\ ecp.current_load = QZero
        /\ ecp.compute_requests = <<>>

\* a timestep starts after the provider has granted compute in an earlier one
StepStartsAfterGrants ==
    /\ pc = "step"
    /\ current_time > 0
    /\ ecp.present
    /\ QLt(QZero, ecp.total_demand)
    /\ \E i \in DOMAIN coalitions : QLt(QZero, coal[coalitions[i]].ecp_compute_purchased)
    /\ ecp.current_load = QZero
    /\ ecp.compute_requests = <<>>

\* C20: the provider utility of a metrics snapshot is computed with the
\* effective operating cost max(0, cost - overlap savings / cumulative demand).
SnapshotUsesEffectiveCost ==
    (lastOp.op = "record_metrics" /\ ~lastOp.is_warmup /\ ecp.present) =>
        current_metrics.ecp_utility = calculate_utility(ecp)

\* a snapshot taken while the provider has accumulated overlap savings
SnapshotWithSavings ==
    /\ lastOp.op = "record_metrics" /\ ~lastOp.is_warmup
    /\ RLt(Zero, ecp.overlap_savings)

\* in a run of the engine the provider never accumulates overlap savings
NoSavingsInRuns == ecp.present => ecp.overlap_savings = Zero

\* C13: with a fixed seed configured, two executions of run() under the same
\* scenario and run count are in the same state at every step from the first
\* initialize() on (generator included), every run of an execution repeats its
\* first run because the seed is applied again by each initialize(), and the
\* aggregated metrics of the two executions are equal.
SeededRunsAreDeterministic ==
    (twin.present /\ runs.seed # None /\ ~(pc = "new" /\ runs.run_num = 0)) =>
        /\ twin.s = Execution
        /\ \A i \in DOMAIN runs.all_results : runs.all_results[i] = runs.all_results[1]
        /\ pc = "finished" =>
               aggregate_results(twin.s.runs.all_results) = aggregate_results(runs.all_results)

\* C13: a seeded pair of executions has finished all its runs, with blocks
\* found and snapshots recorded
SeededPairFinished ==
    /\ twin.present /\ runs.seed # None /\ pc = "finished"
    /\ Len(runs.all_results) = MaxRuns
    /\ ~runs.all_results[MaxRuns].empty
    /\ runs.all_results[MaxRuns].blocks_found > 0
    /\ ~aggregate_results(runs.all_results).empty

\* without a seed, two executions can differ
UnseededPairAgrees ==
    (twin.present /\ runs.seed = None /\ pc = "finished") =>
        twin.s.runs.all_results = runs.all_results

\* the snapshot in current_metrics was recorded by the step just completed
SnapshotJustRecorded ==
    /\ current_metrics.recorded
    /\ pc \in {"step", "done"}
    /\ current_time = current_metrics.time + 1

\* C21, as stated: in every metrics snapshot of a run with the provider enabled
\* the reported system utility is at least the sum over all miners of their
\* cumulative earnings.
SystemUtilityCoversEarnings ==
    (config.ecp_enabled /\ SnapshotJustRecorded) =>
        RLe(RSumSeq([m \in Miners |-> miners[m].total_earnings]),
            current_metrics.system_utility)

\* without provider the snapshot reports the earnings themselves
SoloSnapshotReportsEarnings ==
    (~config.ecp_enabled /\ SnapshotJustRecorded) =>
        current_metrics.system_utility =
            RSumSeq([m \in Miners |-> miners[m].total_earnings])

\* the admission check as C22 states it: for every member, the projected share
\* of an expected-reward baseline scaled by (hashrate after / hashrate before)
\* is at least the tolerance fraction of the current share of the baseline
ToleratedAdmission(w, h, new_miner) ==
    LET members == Range(w.coal[h].members)
        current_total_work == get_total_work(w, h)
        projected_total_work ==
            RAdd(current_total_work, get_potential_work_contribution(w, new_miner, h))
        current_hashrate ==
            RSumSeq([i \in DOMAIN w.coal[h].members |->
                        FromInt(w.miners[w.coal[h].members[i]].total_hashrate)])
        projected_hashrate == RAdd(current_hashrate, FromInt(w.miners[new_miner].total_hashrate))
        projected_expected_rewards ==
            RMul(expected_rewards, RDiv(projected_hashrate, current_hashrate))
    IN  \A member \in members :
            LET member_work == get_work_contribution(w, member, h)
                projected_utility ==
                    IF projected_total_work = Zero THEN Zero
                    ELSE RMul(RDiv(member_work, projected_total_work),
                              projected_expected_rewards)
                current_utility ==
                    IF current_total_work = Zero THEN Zero
                    ELSE RMul(RDiv(member_work, current_total_work), expected_rewards)
            IN  RLe(RMul(current_utility, Def4Tolerance), projected_utility)

\* the coalitions miner m may try to join in its turn: "if len(miner.coalitions)
\* < max_coalitions: for coalition in self.coalitions: if coalition not in
\* miner.coalitions"
Applications ==
    {<<m, coalitions[i]>> : m \in Miners, i \in DOMAIN coalitions} \cap
    {a \in Miners \X Handles :
        /\ Len(miners[a[1]].coalitions) < config.max_coalitions
        /\ ~InCoalitions(W, a[1], a[2])
        /\ Len(coal[a[2]].members) > 0}

\* C22, as stated: the admission check the formation game uses computes each
\* member's projected utility from the projected total work and an
\* expected-reward baseline scaled by (hashrate after / hashrate before), and
\* compares it with the tolerance fraction (95%) of the current utility.
GameUsesToleratedAdmission ==
    pc = "ocf" =>
        \A a \in Applications :
            check_definition_4(W, a[2], a[1]) = ToleratedAdmission(W, a[2], a[1])

\* what the game's check does instead: an applicant to a coalition whose
\* members work is refused, whatever the tolerance would allow
GameRefusesWorkingCoalitions ==
    pc = "ocf" =>
        \A a \in Applications :
            get_total_work(W, a[2]) # Zero => ~check_definition_4(W, a[2], a[1])

\* the game is about to consider an application the tolerance would admit
ToleratedApplicationPending ==
    /\ pc = "ocf"
    /\ \E a \in Applications : ToleratedAdmission(W, a[2], a[1])

\* the block's reward less the provider's bill, before any discount
BlockUndiscounted ==
    RSub(BlockReward,
         QScale(coal'[lastOp'.winner].ecp_compute_purchased,
                IF ecp'.present THEN ecp'.price_per_hash ELSE Zero))

\* what the members of the winning coalition were credited for the block
BlockCredited ==
    RSumSeq([i \in DOMAIN coal[lastOp'.winner].members |->
                RSub(miners'[coal[lastOp'.winner].members[i]].total_earnings,
                     miners[coal[lastOp'.winner].members[i]].total_earnings)])

\* C23, as stated: in a scenario with smart_contract = false the net reward is
\* reduced by the trust-overhead factor (and by the theft, when it happens)
\* before it is distributed; with smart_contract = true no discount is applied.
DiscountFollowsScenario ==
    [][(BlockHandled /\ RLt(Zero, BlockUndiscounted)) =>
          IF config.smart_contract
          THEN BlockCredited = BlockUndiscounted
          ELSE BlockCredited \in
                   {RMul(BlockUndiscounted, RSub(One, TRUST_OVERHEAD_FACTOR)),
                    RMul(RMul(BlockUndiscounted, RSub(One, TRUST_OVERHEAD_FACTOR)),
                         RSub(One, THEFT_AMOUNT))}
    ]_vars

\* what the code does: the discount follows the module-wide
\* SMART_CONTRACT_ENABLED, whatever the scenario says
DiscountFollowsModuleSetting ==
    [][(BlockHandled /\ RLt(Zero, BlockUndiscounted)) =>
          BlockCredited \in {Discounted(BlockUndiscounted, theft) : theft \in TheftOutcomes}
    ]_vars

\* a block has been paid out in a scenario without smart contract
PaidWithoutSmartContract ==
    /\ ~config.smart_contract
    /\ lastOp.op = "step_end"
    /\ lastOp.winner # None
    /\ \E m \in Miners : RLt(Zero, miners[m].total_earnings)

\* the values of the range handled so far whose run did not fail, in input order
SweepSucceeded == SelectSeq(sweep.done, LAMBDA d : ~d.raised)

\* C24: the structure a sweep builds lists, in input order, exactly the values
\* whose runs did not fail, and every reported metric list has one entry per
\* listed value, at the same index: the mean of that value's aggregate.
SweepListsAligned ==
    sweep.present =>
        /\ \A i \in DOMAIN sweep.done : sweep.done[i].value = sweep.param_range[i]
        /\ sweep.all_results.params = [i \in DOMAIN SweepSucceeded |-> SweepSucceeded[i].value]
        /\ \A key \in DOMAIN sweep.all_results.metrics :
               sweep.all_results.metrics[key] =
                   [i \in DOMAIN SweepSucceeded |-> SweepSucceeded[i].results[key].mean]
        /\ (pc = "swept" /\ Len(SweepSucceeded) = Len(sweep.param_range)) =>
               \A key \in {"ecp_utility", "system_utility", "avg_coalition_size"} :
                   /\ key \in DOMAIN sweep.all_results.metrics
                   /\ Len(sweep.all_results.metrics[key]) = Len(sweep.param_range)

\* a sweep has returned with its first value failed and a later one stored
SweptWithFailure ==
    /\ sweep.present
    /\ pc = "swept"
    /\ sweep.done[1].raised
    /\ Len(sweep.all_results.params) >= 1
    /\ DOMAIN sweep.all_results.metrics # {}

\* a sweep has returned with every value stored
SweptWithoutFailure ==
    /\ sweep.present
    /\ pc = "swept"
    /\ Len(sweep.all_results.params) = Len(sweep.param_range)
    /\ Len(sweep.param_range) > 1

\* the value the sweep has set for the run in progress
SweptValue == config[sweep.param_name]

\* a run of a sweep of param_name has been initialized and has not ended
InSweptRun(param_name) ==
    /\ sweep.present
    /\ sweep.param_name = param_name
    /\ pc \in {"step", "ocf", "rest", "done"}

\* C25, as stated: every run executed for swept value v uses v: a miner-count
\* sweep creates exactly v miners, an initial-price sweep starts the provider
\* at price v, a block-reward sweep pays v as the fixed block reward (so the
\* first block's total is v plus the fees of at most the block's transactions),
\* and a transactions-per-block sweep caps a block at v transactions (so the
\* first block takes at most v transactions out of the pool).
SweptValueIsUsed ==
    /\ InSweptRun("N_MINERS") => Cardinality(DOMAIN miners) = SweptValue
    /\ (InSweptRun("ECP_INITIAL_PRICE") /\ ecp.present /\ pc = "step" /\ current_time = 0) =>
           ecp.price_per_hash = FromInt(SweptValue)
    /\ (InSweptRun("BLOCK_REWARD_B") /\ blocks_found = 1) =>
           /\ RLe(FromInt(SweptValue), total_rewards_distributed)
           /\ RLe(total_rewards_distributed,
                  FromInt(SweptValue + TRANSACTIONS_PER_BLOCK_I * TRANSACTION_FEE_MAX))
    /\ (InSweptRun("TRANSACTIONS_PER_BLOCK_I") /\ blocks_found = 1) =>
           Cardinality(global_transaction_pool) >= MaxTx - SweptValue

\* what the code does: whatever is swept, a run creates the configured number
\* of miners, starts the provider at the configured initial price, and pays
\* the configured block reward for at most the configured number of transactions
SweptValueIsIgnored ==
    (sweep.present /\ pc \in {"step", "ocf", "rest", "done"}) =>
        /\ Cardinality(DOMAIN miners) = NumMiners
        /\ (ecp.present /\ pc = "step" /\ current_time = 0) =>
               ecp.price_per_hash = ECP_INITIAL_PRICE
        /\ blocks_found = 1 =>
               /\ RLe(FromInt(BLOCK_REWARD_B), total_rewards_distributed)
               /\ RLe(total_rewards_distributed,
                      FromInt(BLOCK_REWARD_B + TRANSACTIONS_PER_BLOCK_I * TRANSACTION_FEE_MAX))
               /\ Cardinality(global_transaction_pool) >= MaxTx - TRANSACTIONS_PER_BLOCK_I

\* C26, as stated: when one run of a batch of more than one run raises, the
\* batch goes on with its next run (or, after the last run, returns the
\* aggregate of the runs that succeeded); the sweep does not lose the value.
FailedRunAbortedAlone ==
    [][(MaxRuns > 1 /\ lastOp'.op = "raise" /\ pc = "rest") =>
          /\ pc' \in {"new", "finished"}
          /\ sweep'.index = sweep.index
    ]_vars

\* what the code does: the error ends the batch, and the sweep goes on with the
\* next value without any result for this one
FailedRunEndsBatch ==
    [][(lastOp'.op = "raise" /\ pc = "rest") =>
          /\ pc' = "idle"
          /\ sweep'.index = sweep.index + 1
          /\ sweep'.all_results = sweep.all_results
    ]_vars

\* a run other than the first of its batch has raised
LaterRunRaised ==
    /\ sweep.present
    /\ lastOp.op = "raise"
    /\ lastOp.run_num > 0

\* the collection-phase timesteps before time upto that are multiples of the
\* recording interval
SnapshotTimes(upto) ==
    {t \in WARMUP_PERIOD..(upto - 1) : t % METRICS_PERIOD = 0}

\* C27: no snapshot has a time below WARMUP_PERIOD, and the history of a run
\* holds exactly one snapshot, in order, for each completed collection-phase
\* timestep that is a multiple of the recording interval; the snapshot shows
\* the state after that timestep's step.
SnapshotsOnlyInCollection ==
    (twin.present /\ pc \in {"new", "step", "ocf", "rest", "done", "finished"}) =>
        LET h == runs.metrics_history
        IN  /\ \A i \in DOMAIN h : h[i].time >= WARMUP_PERIOD
            /\ Len(h) = Cardinality(SnapshotTimes(current_time))
            /\ \A i \in DOMAIN h :
                   /\ h[i].time \in SnapshotTimes(current_time)
                   /\ i > 1 => h[i - 1].time < h[i].time
            /\ SnapshotJustRecorded =>
                   h[Len(h)] = record_metrics(W, ecp, coalitions, current_time - 1,
                                              blocks_found, total_rewards_distributed)

\* a run has ended with a snapshot for every recording timestep of its
\* collection phase, the last of them after blocks were found
CollectionPhaseRecorded ==
    /\ twin.present
    /\ pc = "done"
    /\ Len(runs.metrics_history) = COLLECTION_PERIOD \div METRICS_PERIOD
    /\ runs.metrics_history[1].time = WARMUP_PERIOD
    /\ runs.metrics_history[1].blocks_found > 0

PoolBelowTarget == Cardinality(global_transaction_pool) < MaxTx

\* C28: a pool that blocks have reduced below its target size is refilled to
\* the target size at a later timestep of the same run; so a run whose last
\* timestep finds no block ends with the pool at its target size.
PoolIsRefilled ==
    [][(twin.present /\ pc = "rest" /\ pc' = "done"
        /\ blocks_found' = blocks_found)
       => Cardinality(global_transaction_pool') = MaxTx]_vars

\* what the engine does: within a run the pool only loses transactions; it
\* is at its target size again only after the next initialize()
PoolOnlyShrinksInRun ==
    [][(twin.present /\ pc # "new") =>
          global_transaction_pool' \subseteq global_transaction_pool]_vars

\* a block has emptied part of the pool well before the end of the run
PoolReducedEarly ==
    /\ twin.present
    /\ pc = "step"
    /\ current_time < WARMUP_PERIOD
    /\ blocks_found > 0
    /\ PoolBelowTarget

\* a run has ended with a pool that blocks had emptied before the collection
\* phase began
PoolStillReducedAtEnd ==
    /\ twin.present
    /\ pc = "done"
    /\ runs.metrics_history[1].blocks_found > 0
    /\ PoolBelowTarget

\* the provider's graph maps every coalition of the list to its current members
GraphCurrent ==
    \A i \in DOMAIN coalitions :
        GraphGet(ecp, coal[coalitions[i]].coalition_id) = Range(coal[coalitions[i]].members)

GraphRebuiltAfterGame ==
    [][/\ (\/ coalitions' # coalitions
            \/ \E h \in Handles : coal'[h].members # coal[h].members) => pc = "ocf"
       /\ (ecp.present /\ pc = "ocf" /\ pc' = "rest") => GraphCurrent']_vars

Joiners == 1..(NumMiners + 1)

\* the coalition the client works on
TheCoalition == 1

InitMembership ==
    \E hashrates \in [Joiners -> 1..MaxHash], head \in Joiners \cup {None} :
        /\ global_transaction_pool = {}
        /\ miners = [m \in Joiners |-> NewMiner(hashrates[m])]
        /\ coal = [h \in Handles |->
                      IF h = TheCoalition THEN NewCoalition(0, head) ELSE NoCoalition]
        /\ coalitions = <<TheCoalition>>
        /\ ecp = NoECP
        /\ config = ApiScenario
        /\ runs = NoRuns
        /\ twin = NoTwin
        /\ included = {}
        /\ sweep = NoSweep
        /\ pc = "members"
        /\ current_time = 0
        /\ ocf = NoOcf
        /\ blocks_found = 0
        /\ total_rewards_distributed = Zero
        /\ rounds = 0
        /\ lastOp = [op |-> "init"]
        /\ nops = 0
        /\ current_metrics = NoMetrics

\* a call on the coalition; the head before the call is kept for the record
MembershipCall(r, op, m) ==
    /\ pc = "members"
    /\ nops < MaxOps
    /\ nops' = nops + 1
    /\ miners' = r.w.miners
    /\ coal' = r.w.coal
    /\ lastOp' = [op |-> op, h |-> TheCoalition, m |-> m, ok |-> r.ok,
                  head_before |-> coal[TheCoalition].head_miner,
                  members_before |-> coal[TheCoalition].members]
    /\ UNCHANGED <<coalitions, ecp, ocf, config, runs, twin, sweep, included, pc, current_time,
                   blocks_found, total_rewards_distributed, rounds, current_metrics,
                   global_transaction_pool>>

MemberAdded(m) ==
    \E r \in {add_member(W, TheCoalition, m)} : MembershipCall(r, "add_member", m)

MemberRemoved(m) ==
    \E r \in {remove_member(W, TheCoalition, m)} : MembershipCall(r, "remove_member", m)

MemberJoined(m) ==
    \E r \in {join_coalition(W, m, TheCoalition)} : MembershipCall(r, "join_coalition", m)

NextMembership ==
    \/ \E m \in Joiners : MemberAdded(m)
    \/ \E m \in Joiners : MemberRemoved(m)
    \/ \E m \in Joiners : MemberJoined(m)

SpecMembership == InitMembership /\ [][NextMembership]_vars

\* the head is a current member when there are members, absent when none
HeadAmongMembers ==
    \A h \in Handles :
        coal[h].alive =>
            IF coal[h].members = <<>> THEN coal[h].head_miner = None
            ELSE coal[h].head_miner \in Range(coal[h].members)

\* the members that stay when m leaves, in join order
Remaining(members, m) == SelectSeq(members, LAMBDA x : x # m)

\* C30: after any sequence of add_member and remove_member calls the head of
\* the coalition is one of its members whenever it has members and absent
\* when it has none; when the head is removed, the new head is the first
\* remaining member in join order.
HeadFollowsMembership ==
    /\ HeadAmongMembers
    /\ [][/\ HeadAmongMembers'
           /\ \A m \in Joiners :
                 ( /\ lastOp'.op = "remove_member" /\ lastOp'.h = TheCoalition
                   /\ lastOp'.m = m /\ lastOp'.ok
                   /\ coal[TheCoalition].head_miner = m
                   /\ Remaining(coal[TheCoalition].members, m) # <<>> )
                 => coal'[TheCoalition].head_miner =
                        Remaining(coal[TheCoalition].members, m)[1]]_vars

\* the head has left a coalition of three: two members remain, and the one
\* who joined first is not the one with the lowest number
HeadLeftFullCoalition ==
    /\ pc = "members"
    /\ lastOp.op = "remove_member"
    /\ lastOp.ok
    /\ lastOp.head_before = lastOp.m
    /\ Len(lastOp.members_before) = NumMiners + 1
    /\ Len(coal[TheCoalition].members) = NumMiners
    /\ coal[TheCoalition].members[1] > coal[TheCoalition].members[2]

\* the last member has left: no member, no head
LastMemberLeft ==
    /\ pc = "members"
    /\ lastOp.op = "remove_member"
    /\ lastOp.ok
    /\ coal[TheCoalition].members = <<>>
    /\ coal[TheCoalition].head_miner = None

\* C31: no transaction is included in more than one mined block of a run: the
\* transactions selected for a block were in no earlier block, and no
\* transaction is selected twice for the same block.
NoTransactionMinedTwice ==
    [][(lastOp'.op = "step_end" /\ lastOp'.winner # None) =>
          LET selected == lastOp'.selected_transactions
          IN  /\ TxIds(Range(selected)) \cap included = {}
              /\ \A i, j \in DOMAIN selected :
                     selected[i].tx_id = selected[j].tx_id => i = j]_vars

\* a block has taken transactions after an earlier block had taken others
SecondBlockWithTransactions ==
    /\ pc \in {"step", "done"}
    /\ lastOp.op = "step_end"
    /\ lastOp.winner # None
    /\ lastOp.selected_transactions # <<>>
    /\ blocks_found > 1
    /\ Cardinality(included) > Len(lastOp.selected_transactions)

\* m is in c's member list exactly if c is in m's coalition list, for every
\* coalition object, and m's allocation has a key exactly for each such c
ConsistentFor(m) ==
    /\ \A h \in Handles :
           coal[h].alive => (IsMember(W, h, m) <=> h \in Range(miners[m].coalitions))
    /\ \A i \in DOMAIN miners[m].coalitions : coal[miners[m].coalitions[i]].alive
    /\ DOMAIN miners[m].allocation =
           {coal[h].coalition_id : h \in {c \in Handles : coal[c].alive /\ IsMember(W, c, m)}}

\* C32: membership is bidirectionally consistent in every state of a run:
\* miner m is in coalition c's member list if and only if c is in m's
\* coalition list, and m's allocation has a key exactly for each such c.
MembershipConsistent ==
    pc \in {"step", "ocf", "rest", "done"} => \A m \in Miners : ConsistentFor(m)

\* a turn of the formation game taken in a consistent state leaves a
\* consistent state (at API level, where turns do change membership)
TurnKeepsMembershipConsistent ==
    [][(lastOp'.op = "turn" /\ \A m \in Miners : ConsistentFor(m))
          => \A m \in Miners : ConsistentFor(m)']_vars

\* a turn has merged a miner into a coalition, from a consistent state
MergedConsistently ==
    /\ pc = "api"
    /\ lastOp.op = "turn"
    /\ lastOp.changes_made
    /\ lastOp.best.strategy = "MERGE"
    /\ \A m \in Miners : ConsistentFor(m)

\* a formation round has ended in a run where one miner is a coalition's
\* member and another miner has no coalition at all
MemberAndOrphanAfterRound ==
    /\ pc = "rest"
    /\ rounds > 0
    /\ \E m \in Miners : miners[m].coalitions # <<>>
    /\ \E m \in Miners : miners[m].coalitions = <<>> /\ miners[m].allocation = EmptyAlloc

\* the miner's recorded utility is not negative, and neither SPLIT nor any
\* LEAVE promises more than it by more than epsilon
SplitAndLeaveUnattractive(m) ==
    /\ ~RLt(miners[m].current_utility, Zero)
    /\ ~Improves(evaluate_strategy_split(W, m), get_total_utility(W, m))
    /\ \A i \in DOMAIN miners[m].coalitions :
           ~Improves(evaluate_strategy_leave(W, m, miners[m].coalitions[i]),
                     get_total_utility(W, m))

\* C33: a round of the formation game never adds or removes a coalition: no
\* miner's recorded utility is negative, SPLIT and LEAVE never promise more
\* than the current utility by more than epsilon, no turn executes SPLIT or
\* LEAVE, and the engine's list is the same after every step of a round.
RoundKeepsCoalitionList ==
    [][/\ \A m \in Miners : SplitAndLeaveUnattractive(m)
       /\ (lastOp'.op = "turn") =>
              (/\ lastOp'.best.strategy \notin {"SPLIT", "LEAVE"}
               /\ coalitions' = coalitions)
       /\ (pc = "ocf") => (coalitions' = coalitions)]_vars

\* a member with positive recorded utility and room for one more coalition
\* has taken its turn: SPLIT was among its options
MemberWithUtilityTookTurn ==
    /\ pc = "ocf"
    /\ lastOp.op = "turn"
    /\ miners[lastOp.m].coalitions # <<>>
    /\ Len(miners[lastOp.m].coalitions) < config.max_coalitions
    /\ RLt(Zero, miners[lastOp.m].current_utility)

ListNeverShortened ==
    [][(pc \in {"step", "ocf", "rest"}) => (Len(coalitions') >= Len(coalitions))]_vars

RECURSIVE Granted(_, _, _)
\* what the provider granted coalition h in the requests from the i-th on
Granted(compute_requests, h, i) ==
    IF i > Len(compute_requests) THEN QZero
    ELSE IF compute_requests[i].coalition = h
    THEN QAdd(compute_requests[i].allocated, Granted(compute_requests, h, i + 1))
    ELSE Granted(compute_requests, h, i + 1)

EveryCoalitionRequests ==
    [][(pc = "rest" /\ ecp.present) =>
          \A r \in {PriceAndRequest(W, ecp, coalitions, current_time)} :
              \A i \in DOMAIN coalitions :
                  \E k \in DOMAIN r.ecp.compute_requests :
                      r.ecp.compute_requests[k].coalition = coalitions[i]]_vars

CoalitionRewards ==
    RSumSeq([i \in DOMAIN coalitions |-> coal[coalitions[i]].total_rewards])

\* C36: in every state of a run the engine's cumulative reward total equals the
\* sum of the coalitions' cumulative rewards.
RewardTotalsAgree ==
    pc \in {"step", "ocf", "rest", "done"} =>
        RSub(total_rewards_distributed, CoalitionRewards) = Zero

\* every block the engine counts was distributed: the winner's cumulative
\* rewards grow by what the engine adds to its total, and its members earn
BlockCountedIsDistributed ==
    [][(lastOp'.op = "step_end" /\ lastOp'.winner # None) =>
          /\ RSub(coal'[lastOp'.winner].total_rewards, coal[lastOp'.winner].total_rewards)
                 = RSub(total_rewards_distributed', total_rewards_distributed)
          /\ \E m \in Miners : RLt(miners[m].total_earnings, miners'[m].total_earnings)]_vars

\* blocks with transaction fees have been counted in a run with a provider
\* that was paid
FeesCountedWithProvider ==
    /\ pc \in {"step", "done"}
    /\ ecp.present
    /\ blocks_found > 1
    /\ RLt(FromInt(blocks_found * BLOCK_REWARD_B), total_rewards_distributed)
    /\ \E i \in DOMAIN coalitions : RLt(Zero, coal[coalitions[i]].ecp_cost_paid)

RECURSIVE CoalitionBlocks(_)
\* the blocks-found counters of the coalitions of a list, summed
CoalitionBlocks(coalition_list) ==
    IF coalition_list = <<>> THEN 0
    ELSE coal[Head(coalition_list)].blocks_found + CoalitionBlocks(Tail(coalition_list))

\* C37: in every state of a run the engine's blocks-found counter equals the
\* sum of the blocks-found counters of the listed coalitions, and a single
\* timestep increases it by at most one.
BlockCountersAgree ==
    [][(pc \in {"step", "ocf", "rest"}) =>
          (/\ blocks_found = CoalitionBlocks(coalitions)
           /\ (pc' \in {"step", "done"}) => (blocks_found' = CoalitionBlocks(coalitions)')
           /\ (blocks_found' # blocks_found) =>
                  (/\ pc = "rest"
                   /\ current_time' = current_time + 1
                   /\ blocks_found' = blocks_found + 1))]_vars

\* several coalitions of the list have found blocks
SeveralWinners ==
    /\ pc \in {"step", "done"}
    /\ blocks_found > 2
    /\ \E i, j \in DOMAIN coalitions :
           /\ i # j
           /\ coal[coalitions[i]].blocks_found > 0
           /\ coal[coalitions[j]].blocks_found > 0

\* C38: when a miner joins a coalition through MERGE, the work it contributes
\* to that coalition right after joining equals the potential work contribution
\* that the admission check and the projected-utility evaluation assumed.
MergeContributesAsAssumed ==
    [][(/\ lastOp'.op = "turn"
        /\ lastOp'.best.strategy = "MERGE"
        /\ lastOp'.changes_made) =>
          (get_work_contribution(World(miners', coal'), lastOp'.m, lastOp'.best.target)
             = get_potential_work_contribution(W, lastOp'.m, lastOp'.best.target))]_vars

\* a miner without a membership that joined through MERGE works for the
\* coalition with its whole hashrate, as assumed
OrphanMergeContributesAsAssumed ==
    [][(/\ lastOp'.op = "turn"
        /\ lastOp'.best.strategy = "MERGE"
        /\ lastOp'.changes_made
        /\ Len(miners[lastOp'.m].coalitions) = 0) =>
          (/\ get_work_contribution(World(miners', coal'), lastOp'.m, lastOp'.best.target)
                 = get_potential_work_contribution(W, lastOp'.m, lastOp'.best.target)
           /\ get_work_contribution(World(miners', coal'), lastOp'.m, lastOp'.best.target)
                 = FromInt(miners[lastOp'.m].total_hashrate))]_vars

\* a member of one coalition has joined a second one through MERGE
MergedIntoSecondCoalition ==
    /\ lastOp.op = "turn"
    /\ lastOp.best.strategy = "MERGE"
    /\ lastOp.changes_made
    /\ Len(miners[lastOp.m].coalitions) > 1

\* a member of one coalition that joined a second one through MERGE got no
\* working time for it
MergedWithoutWork ==
    /\ MergedIntoSecondCoalition
    /\ get_work_contribution(W, lastOp.m, lastOp.best.target) = Zero
=============================================================================
